---- MODULE Spec2Model ----
(***************************************************************************)
(* A model of the cs419 ray tracer: the bounding volume hierarchy          *)
(* (hittable/bvh.rs, hittable/aabb.rs, hittable/triangle.rs), the flat     *)
(* containers (hittable_list.rs), the recursive integrator (main.rs and    *)
(* material/*.rs) and the per-pixel sample generation (main.rs).           *)
(*                                                                         *)
(* Numbers.  The program computes in f32.  Two representations are used:   *)
(*  - distances along a ray, which the code obtains by division, are       *)
(*    extended rationals [n, d]: d > 0 is the real n/d, d = 0 is what IEEE *)
(*    division by zero gives (+inf, -inf, NaN).  Triangle and box          *)
(*    coordinates of the geometric universe are small integers, for which  *)
(*    the sums and products of the intersection tests are exact in f32;    *)
(*  - the arithmetic of BVH::build and of the jitter array, where the      *)
(*    rounding of f32 decides the outcome, is computed with round to       *)
(*    nearest, ties to even, on 24 significant bits (F32Round, F32Quot).   *)
(***************************************************************************)
EXTENDS Integers, Sequences, FiniteSets, TLC

VARIABLES
    objects,        \* BVH::build: the Vec<Triangle> given to the outermost call
    max_at_leaf,    \* BVH::build: max_at_leaf
    stack,          \* BVH::build: the activation records of the recursion
    tree,           \* BVH::build: the nodes built so far, by path from the root
    bpc,            \* BVH::build: "building", "built", "panic" or "overflow"
    query,          \* the last hit query on the built tree, or NoQuery
    bvh_hit,        \* BVH.hit's answer to the query
    list_hit,       \* TriangleList.hit's answer to the same query
    box_first,      \* AABB::surrounding_box: its first argument
    box_second,     \* AABB::surrounding_box: its second argument
    box_surrounding, \* AABB::surrounding_box: the box returned, once called
    box_query,      \* AABB::hit: the ray and interval of the call, or NoQuery
    box_hit,        \* AABB::hit: what the call returned
    hl_objects,     \* HittableList.objects
    hl_query,       \* the last ray sent into the HittableList, or NoQuery
    hl_hit,         \* HittableList.hit's answer to it
    hl_box,         \* HittableList.bounding_box's answer, once called
    scene,          \* the materials of the objects a ray can hit
    depth_limit,    \* the depth given to the outermost trace_ray
    calls,          \* the integrator's activation records, outermost first
    ret,            \* the radiance returned by the call that ended last
    tpc,            \* "running", "done", or "panic" / "wrapped" on depth - 1 at 0
    jitter_boxes,   \* main: jitter_boxes[j][i], the pair (.0, .1)
    loop_j,         \* main: j of the initialisation loop
    loop_i,         \* main: i of the initialisation loop
    jpc,            \* "initialising", "initialised", "shuffling_x", "shuffling_y"
                    \* or "shuffled"
    jitter_canonical, \* jitter_boxes as shuffle_jittered_sampling received it,
    world,          \* main: the scene (camera, mesh, lights), or Unbuilt
    tasks,          \* main: the closure of each pixel: queued, sampling or finished
    pixels,         \* main: the Vec that collect() returns
    rng_outcome,    \* main: the outcome of the tasks' random draws
    rpc,            \* main: "start", "tracing", "collected", "writing" or "saved"
    img,            \* main: the RgbImage, once made
    shape,          \* a Hittable: the receiver of the calls below
    shape_query,    \* hit: the ray and interval of the call, or NoQuery
    shape_hit,      \* hit: the Option<HitRecord> returned
    shape_box       \* bounding_box: the Option<AABB> returned, once called

bvhVars == <<objects, max_at_leaf, stack, tree, bpc, query, bvh_hit, list_hit>>

boxVars == <<box_first, box_second, box_surrounding, box_query, box_hit>>

listVars == <<hl_objects, hl_query, hl_hit, hl_box>>

traceVars == <<scene, depth_limit, calls, ret, tpc>>

jitterVars == <<jitter_boxes, loop_j, loop_i, jpc, jitter_canonical>>

renderVars == <<world, tasks, pixels, rng_outcome, rpc, img>>

shapeVars == <<shape, shape_query, shape_hit, shape_box>>

vars == <<bvhVars, boxVars, listVars, traceVars, jitterVars, renderVars, shapeVars>>

-----------------------------------------------------------------------------
(* Extended rationals: the values of f32 divisions.                        *)

Abs(x) == IF x < 0 THEN -x ELSE x

Sgn(x) == IF x > 0 THEN 1 ELSE IF x < 0 THEN -1 ELSE 0

RECURSIVE GCD(_, _)
GCD(a, b) == IF b = 0 THEN a ELSE GCD(b, a % b)

\* p / q as f32 division gives it: x/0 is an infinity of x's sign, 0/0 is NaN.
FDiv(p, q) ==
    IF q = 0 THEN [n |-> Sgn(p), d |-> 0]
    ELSE LET g == GCD(Abs(p), Abs(q))
             s == Sgn(q)
         IN  [n |-> (s * p) \div g, d |-> (s * q) \div g]

FInt(k) == [n |-> k, d |-> 1]

PosInf == [n |-> 1, d |-> 0]

NegInf == [n |-> -1, d |-> 0]

NaN == [n |-> 0, d |-> 0]

IsNaN(a) == a.d = 0 /\ a.n = 0

\* a < b on f32: false when either is NaN.
FLt(a, b) ==
    /\ ~IsNaN(a)
    /\ ~IsNaN(b)
    /\ IF a.d = 0 /\ b.d = 0 THEN a.n < b.n ELSE a.n * b.d < b.n * a.d

\* a <= b on f32: false when either is NaN.
FLe(a, b) == ~IsNaN(a) /\ ~IsNaN(b) /\ ~FLt(b, a)

\* f32::min and f32::max: when one argument is NaN the other is returned.
FMin(a, b) == IF IsNaN(a) THEN b ELSE IF IsNaN(b) THEN a ELSE IF FLt(b, a) THEN b ELSE a

FMax(a, b) == IF IsNaN(a) THEN b ELSE IF IsNaN(b) THEN a ELSE IF FLt(a, b) THEN b ELSE a

\* const EPSILON: f32 = 0.000008
EPSILON == FDiv(8, 1000000)

\* const MAX_HIT_DISTANCE: f32 = f32::INFINITY
MAX_HIT_DISTANCE == PosInf

-----------------------------------------------------------------------------
(* glm::Vec3 with integer components.                                      *)

Vec3(x, y, z) == <<x, y, z>>

VSub(a, b) == <<a[1] - b[1], a[2] - b[2], a[3] - b[3]>>

Dot(a, b) == a[1] * b[1] + a[2] * b[2] + a[3] * b[3]

Cross(a, b) ==
    << a[2] * b[3] - a[3] * b[2],
       a[3] * b[1] - a[1] * b[3],
       a[1] * b[2] - a[2] * b[1] >>

Min2(a, b) == IF b < a THEN b ELSE a

Max2(a, b) == IF b > a THEN b ELSE a

Axes == 1..3

-----------------------------------------------------------------------------
(* Option<HitRecord>.                                                      *)

None == [some |-> FALSE]

\* HitRecord: hit_point, distance and material (the normal is not modelled:
\* no claim settled here reads it).
Some(hit_point, distance, material) ==
    [some |-> TRUE, hit_point |-> hit_point, distance |-> distance, material |-> material]

\* Option<AABB>.
NoBox == [some |-> FALSE]

SomeBox(box) == [some |-> TRUE, box |-> box]

\* Ray::at for a finite t = n/d: origin + t * direction.
Ray_at(ray, t) ==
    [k \in Axes |-> FDiv(ray.origin[k] * t.d + t.n * ray.direction[k], t.d)]

-----------------------------------------------------------------------------
(* hittable/aabb.rs                                                        *)

AABB(minimum_point, maximum_point) ==
    [minimum_point |-> minimum_point, maximum_point |-> maximum_point]

\* One iteration of the loop of AABB::hit: TRUE when it returns None.
AABB_slab_miss(box, ray, min_distance, max_distance, dimension) ==
    LET lo == FDiv(box.minimum_point[dimension] - ray.origin[dimension],
                   ray.direction[dimension])
        hi == FDiv(box.maximum_point[dimension] - ray.origin[dimension],
                   ray.direction[dimension])
        t0 == FMin(lo, hi)
        t1 == FMax(lo, hi)
        t_min == FMax(t0, min_distance)
        t_max == FMin(t1, max_distance)
    IN  FLe(t_max, t_min)

\* AABB::hit: None as soon as one dimension's test fails, else the sentinel
\* record (distance 0, material None).
AABB_hit(box, ray, min_distance, max_distance) ==
    IF \E dimension \in Axes :
           AABB_slab_miss(box, ray, min_distance, max_distance, dimension)
    THEN None
    ELSE Some(<<FInt(0), FInt(0), FInt(0)>>, FInt(0), "None")

\* surrounding_box with the z maximum taken from the y coordinates (a slip of
\* the copied line).
surrounding_box_copied_y(first, second) ==
    AABB(<< Min2(first.minimum_point[1], second.minimum_point[1]),
            Min2(first.minimum_point[2], second.minimum_point[2]),
            Min2(first.minimum_point[3], second.minimum_point[3]) >>,
         << Max2(first.maximum_point[1], second.maximum_point[1]),
            Max2(first.maximum_point[2], second.maximum_point[2]),
            Max2(first.maximum_point[2], second.maximum_point[2]) >>)

surrounding_box(first, second) ==
    AABB(<< Min2(first.minimum_point[1], second.minimum_point[1]),
            Min2(first.minimum_point[2], second.minimum_point[2]),
            Min2(first.minimum_point[3], second.minimum_point[3]) >>,
         << Max2(first.maximum_point[1], second.maximum_point[1]),
            Max2(first.maximum_point[2], second.maximum_point[2]),
            Max2(first.maximum_point[3], second.maximum_point[3]) >>)

-----------------------------------------------------------------------------
(* f32 arithmetic of BVH::build.  A coordinate is an integer number of     *)
(* units; a value is exactly representable when it has at most 24          *)
(* significant bits.  Scaling by a power of two is exact in f32, so the    *)
(* size of the unit does not matter.                                       *)

F32Mantissa == 2 ^ 24

\* Round num/den (num >= 0, den > 0) to the nearest integer, ties to even.
RoundNearestEven(num, den) ==
    LET q == num \div den
        r == num % den
    IN  IF 2 * r < den THEN q
        ELSE IF 2 * r > den THEN q + 1
        ELSE IF q % 2 = 0 THEN q ELSE q + 1

\* The spacing of the f32 values around a >= 0: the least power of two g
\* with a / g < 2^24.
RECURSIVE F32Grid(_, _)
F32Grid(a, g) == IF a \div g < F32Mantissa THEN g ELSE F32Grid(a, 2 * g)

\* The f32 nearest to the integer x.
F32Round(x) ==
    LET a == Abs(x)
        g == F32Grid(a, 1)
    IN  Sgn(x) * RoundNearestEven(a, g) * g

\* The least power of two S with a * S / n >= 2^23 (a > 0).
RECURSIVE F32Scale(_, _, _)
F32Scale(a, n, S) ==
    IF 2 * a * S >= F32Mantissa * n THEN S ELSE F32Scale(a, n, 2 * S)

\* The f32 quotient s / n of a representable s by a small integer n > 0:
\* the rational s/n rounded to 24 significant bits.
F32Quot(s, n) ==
    LET a == Abs(s)
    IN  IF a = 0 THEN FInt(0)
        ELSE IF a \div n >= F32Mantissa
        THEN LET g == F32Grid(a \div n, 1)
             IN  FInt(Sgn(s) * RoundNearestEven(a, n * g) * g)
        ELSE LET S == F32Scale(a, n, 1)
             IN  FDiv(Sgn(s) * RoundNearestEven(a * S, n), S)

\* iter().sum::<f32>(): a left fold of f32 additions from 0.0.
RECURSIVE F32Sum(_, _, _)
F32Sum(values, i, acc) ==
    IF i > Len(values) THEN acc
    ELSE F32Sum(values, i + 1, F32Round(acc + values[i]))

\* AABB::centroid: (minimum_point + maximum_point) / 2.0, here in half units
\* (twice the value: the sum is rounded, the halving is exact).
centroid(box) ==
    [k \in Axes |-> F32Round(box.minimum_point[k] + box.maximum_point[k])]


-----------------------------------------------------------------------------
(* main.rs: the canonical arrangement of the multi-jittered samples.       *)
(* Coordinates are computed as the code computes them, in f32; here in     *)
(* units of 2^-24, the spacing of the values rng().gen::<f32>() draws.     *)

\* i_float + y for an integer 0 <= i_float and an f32 0 <= y (in units),
\* rounded to f32.
F32AddInt(i_float, y) ==
    IF i_float = 0 THEN y
    ELSE LET whole == i_float * F32Mantissa
             g == F32Grid(whole + y.n \div y.d, 1)
         IN  FInt(whole + g * RoundNearestEven(y.n, y.d * g))

\* y / n_float for an f32 y >= 0 (in units) and an integer n_float > 0,
\* rounded to f32: a power of two in the denominator scales exactly.
F32QuotF(y, n_float) ==
    LET q == F32Quot(y.n, n_float)
    IN  FDiv(q.n, q.d * y.d)

\* (a_float + (b_float + r) / n_float) / n_float for the draw r = draw * 2^-24,
\* as a rational.
jitter_coordinate(a_float, b_float, draw, n_float) ==
    LET inner == F32Round(b_float * F32Mantissa + draw)
        x == F32QuotF(F32AddInt(a_float, F32Quot(inner, n_float)), n_float)
    IN  FDiv(x.n, x.d * F32Mantissa)

-----------------------------------------------------------------------------
(* hittable/triangle.rs                                                    *)

\* Triangle::new: edges[0] = v1 - v0, edges[1] = v2 - v0.
Triangle(vertices, material) ==
    [vertices |-> vertices, material |-> material]

edge_one(tri) == VSub(tri.vertices[2], tri.vertices[1])

edge_two(tri) == VSub(tri.vertices[3], tri.vertices[1])

\* Triangle::hit (Moller-Trumbore).  u, v and t are the rationals a/det.
Triangle_hit(tri, ray, min_distance, max_distance) ==
    LET perpendicular == Cross(ray.direction, edge_two(tri))
        elevation_angle == Dot(edge_one(tri), perpendicular)
        det == FInt(elevation_angle)
        minus_eps == [n |-> -EPSILON.n, d |-> EPSILON.d]
    IN  IF FLe(minus_eps, det) /\ FLt(det, EPSILON)
        THEN None
        ELSE
          LET distance == VSub(ray.origin, tri.vertices[1])
              u == FDiv(Dot(distance, perpendicular), elevation_angle)
          IN  IF ~(FLe(FInt(0), u) /\ FLe(u, FInt(1)))
              THEN None
              ELSE
                LET q == Cross(distance, edge_one(tri))
                    v == FDiv(Dot(ray.direction, q), elevation_angle)
                    u_plus_v == FDiv(Dot(distance, perpendicular) + Dot(ray.direction, q),
                                     elevation_angle)
                IN  IF FLt(v, FInt(0)) \/ FLt(FInt(1), u_plus_v)
                    THEN None
                    ELSE
                      LET t == FDiv(Dot(edge_two(tri), q), elevation_angle)
                      IN  IF FLt(min_distance, t) /\ FLt(t, max_distance)
                          THEN Some(Ray_at(ray, t), t, tri.material)
                          ELSE None

\* Triangle::bounding_box: the per-axis extrema of the three vertices.
Triangle_bounding_box(tri) ==
    LET lo(k) == Min2(tri.vertices[1][k], Min2(tri.vertices[2][k], tri.vertices[3][k]))
        hi(k) == Max2(tri.vertices[1][k], Max2(tri.vertices[2][k], tri.vertices[3][k]))
    IN  AABB(<<lo(1), lo(2), lo(3)>>, <<hi(1), hi(2), hi(3)>>)

\* TriangleList::new: the cached box is the fold of surrounding_box over the
\* triangles' boxes, from triangles[0]'s (the caller sees to triangles # <<>>:
\* indexing triangles[0] of an empty vector panics).
RECURSIVE fold_boxes(_, _, _)
fold_boxes(boxes, i, acc) ==
    IF i > Len(boxes) THEN acc
    ELSE fold_boxes(boxes, i + 1, surrounding_box(acc, boxes[i]))

\* TriangleList::new without the fold: the box of triangles[0] alone.
TriangleList_new_first_box(triangles) ==
    [kind |-> "HittableList",
     triangles |-> triangles,
     bounding_box |-> Triangle_bounding_box(triangles[1])]

TriangleList_new(triangles) ==
    LET boxes == [i \in 1..Len(triangles) |-> Triangle_bounding_box(triangles[i])]
    IN  [kind |-> "HittableList",
         triangles |-> triangles,
         bounding_box |-> fold_boxes(boxes, 1, boxes[1])]

\* TriangleList::hit: the loop over the triangles, keeping the closest hit.
RECURSIVE TriangleList_hit_loop(_, _, _, _, _, _, _)
TriangleList_hit_loop(triangles, i, ray, min_distance, max_distance, current_min, closest_hit) ==
    IF i > Len(triangles) THEN closest_hit
    ELSE LET hit == Triangle_hit(triangles[i], ray, min_distance, max_distance)
         IN  IF hit.some /\ FLt(hit.distance, current_min)
             THEN TriangleList_hit_loop(triangles, i + 1, ray, min_distance, max_distance,
                                        hit.distance, hit)
             ELSE TriangleList_hit_loop(triangles, i + 1, ray, min_distance, max_distance,
                                        current_min, closest_hit)

TriangleList_hit(triangles, ray, min_distance, max_distance) ==
    TriangleList_hit_loop(triangles, 1, ray, min_distance, max_distance, PosInf, None)

-----------------------------------------------------------------------------
(* hittable/plane.rs, hittable.rs, hittable_list.rs                        *)

Plane(center, normal, material) ==
    [type |-> "Plane", center |-> center, normal |-> normal, material |-> material]

\* Plane::hit.
Plane_hit(plane, ray, min_distance, max_distance) ==
    LET angle == Dot(plane.normal, ray.direction)
    IN  IF FLt(min_distance, FInt(Abs(angle)))
        THEN LET t == FDiv(Dot(VSub(plane.center, ray.origin), plane.normal), angle)
             IN  IF FLt(min_distance, t) /\ FLt(t, max_distance)
                 THEN Some(Ray_at(ray, t), t, plane.material)
                 ELSE None
        ELSE None

\* HittableItem::Triangle and HittableItem::TriangleList.
TriangleItem(tri) ==
    [type |-> "Triangle", vertices |-> tri.vertices, material |-> tri.material]

TriangleListItem(triangles) ==
    [type |-> "TriangleList",
     triangles |-> triangles,
     bounding_box |-> TriangleList_new(triangles).bounding_box]

\* HittableItem::hit: forward to the variant.
Hittable_hit(item, ray, min_distance, max_distance) ==
    CASE item.type = "Plane" -> Plane_hit(item, ray, min_distance, max_distance)
      [] item.type = "Triangle" -> Triangle_hit(item, ray, min_distance, max_distance)
      [] item.type = "TriangleList" ->
             TriangleList_hit(item.triangles, ray, min_distance, max_distance)

\* HittableItem::bounding_box: a plane is infinite and has none.
Hittable_bounding_box(item) ==
    CASE item.type = "Plane" -> NoBox
      [] item.type = "Triangle" -> SomeBox(Triangle_bounding_box(item))
      [] item.type = "TriangleList" -> SomeBox(item.bounding_box)

\* HittableList::hit: the loop over the objects.
RECURSIVE HittableList_hit_loop(_, _, _, _, _, _, _)
HittableList_hit_loop(objs, i, ray, min_distance, max_distance, current_min, closest_hit) ==
    IF i > Len(objs) THEN closest_hit
    ELSE LET hit == Hittable_hit(objs[i], ray, min_distance, max_distance)
         IN  IF hit.some /\ FLt(hit.distance, current_min)
             THEN HittableList_hit_loop(objs, i + 1, ray, min_distance, max_distance,
                                        hit.distance, hit)
             ELSE HittableList_hit_loop(objs, i + 1, ray, min_distance, max_distance,
                                        current_min, closest_hit)

\* HittableList::hit that keeps the first member hit.
HittableList_hit_first(objs, ray, min_distance, max_distance) ==
    IF \E i \in 1..Len(objs) : Hittable_hit(objs[i], ray, min_distance, max_distance).some
    THEN LET i == CHOOSE i \in 1..Len(objs) :
                      /\ Hittable_hit(objs[i], ray, min_distance, max_distance).some
                      /\ \A j \in 1..(i - 1) :
                            ~Hittable_hit(objs[j], ray, min_distance, max_distance).some
         IN  Hittable_hit(objs[i], ray, min_distance, max_distance)
    ELSE None

HittableList_hit(objs, ray, min_distance, max_distance) ==
    HittableList_hit_loop(objs, 1, ray, min_distance, max_distance, PosInf, None)

\* HittableList::bounding_box: the loop over the objects; None as soon as one
\* has no box.
RECURSIVE HittableList_bounding_box_loop(_, _, _, _)
HittableList_bounding_box_loop(objs, i, output_box, first_box) ==
    IF i > Len(objs) THEN SomeBox(output_box)
    ELSE LET bbox == Hittable_bounding_box(objs[i])
         IN  IF bbox.some
             THEN HittableList_bounding_box_loop(
                      objs, i + 1,
                      IF first_box THEN bbox.box ELSE surrounding_box(output_box, bbox.box),
                      FALSE)
             ELSE NoBox

\* HittableList::bounding_box that looks for a missing box at objects[0] only
\* and passes over the later members that have none.
RECURSIVE HittableList_bounding_box_skip(_, _, _)
HittableList_bounding_box_skip(objs, i, output_box) ==
    IF i > Len(objs) THEN SomeBox(output_box)
    ELSE LET bbox == Hittable_bounding_box(objs[i])
         IN  HittableList_bounding_box_skip(
                 objs, i + 1,
                 IF bbox.some THEN surrounding_box(output_box, bbox.box) ELSE output_box)

HittableList_bounding_box_first_only(objs) ==
    IF objs = <<>> THEN NoBox
    ELSE IF ~Hittable_bounding_box(objs[1]).some THEN NoBox
    ELSE HittableList_bounding_box_skip(objs, 1, Hittable_bounding_box(objs[1]).box)

HittableList_bounding_box(objs) ==
    IF objs = <<>> THEN NoBox
    ELSE IF ~Hittable_bounding_box(objs[1]).some THEN NoBox
    ELSE HittableList_bounding_box_loop(objs, 1, Hittable_bounding_box(objs[1]).box, TRUE)

-----------------------------------------------------------------------------
(* hittable/bvh.rs: BVH::build                                             *)

\* The greatest and least of the centroids' coordinates on an axis
\* (the folds of f32::max from NEG_INFINITY and f32::min from INFINITY).
RECURSIVE fold_max(_, _, _)
fold_max(values, i, acc) ==
    IF i > Len(values) THEN acc ELSE fold_max(values, i + 1, FMax(acc, FInt(values[i])))

RECURSIVE fold_min(_, _, _)
fold_min(values, i, acc) ==
    IF i > Len(values) THEN acc ELSE fold_min(values, i + 1, FMin(acc, FInt(values[i])))

projected(centroids, axis) == [i \in 1..Len(centroids) |-> centroids[i][axis]]

\* spread on an axis: max - min of the centroids, an f32 subtraction.
spread(centroids, axis) ==
    F32Round(fold_max(projected(centroids, axis), 1, NegInf).n
             - fold_min(projected(centroids, axis), 1, PosInf).n)

\* The loop "for axis in 0..3" that keeps the first axis of greatest spread,
\* from maximal_spread = 0.0 and split_axis = 0 (axis 1 here).
RECURSIVE split_axis_loop(_, _, _, _)
split_axis_loop(centroids, axis, maximal_spread, split_axis) ==
    IF axis > 3 THEN split_axis
    ELSE IF spread(centroids, axis) > maximal_spread
         THEN split_axis_loop(centroids, axis + 1, spread(centroids, axis), axis)
         ELSE split_axis_loop(centroids, axis + 1, maximal_spread, split_axis)

split_axis_of(centroids) == split_axis_loop(centroids, 1, 0, 1)

\* midpoint: the f32 sum of the projected centroids divided by their number.
midpoint_of(centroids, axis) ==
    F32Quot(F32Sum(projected(centroids, axis), 1, 0), Len(centroids))

\* which, with <= in the place of <.
goes_left_or_level(obj, split_axis, midpoint) ==
    FLe(FInt(centroid(Triangle_bounding_box(obj))[split_axis]), midpoint)

\* which: the object goes left when its box's centroid is below the midpoint.
goes_left(obj, split_axis, midpoint) ==
    FLt(FInt(centroid(Triangle_bounding_box(obj))[split_axis]), midpoint)

\* The partition whose right side keeps every object.
build_partition_right_keeps_all(objs) ==
    LET bounding_boxes == [i \in 1..Len(objs) |-> Triangle_bounding_box(objs[i])]
        centroids == [i \in 1..Len(objs) |-> centroid(bounding_boxes[i])]
        split_axis == split_axis_of(centroids)
        midpoint == midpoint_of(centroids, split_axis)
        left(obj) == goes_left(obj, split_axis, midpoint)
    IN  [bounding_box |-> fold_boxes(bounding_boxes, 1, bounding_boxes[1]),
         split_axis |-> split_axis,
         midpoint |-> midpoint,
         lefts |-> SelectSeq(objs, left),
         rights |-> objs]

\* Lines 83-133 of BVH::build on a non-empty list: the node's box and the
\* partition of the objects.
build_partition(objs) ==
    LET bounding_boxes == [i \in 1..Len(objs) |-> Triangle_bounding_box(objs[i])]
        centroids == [i \in 1..Len(objs) |-> centroid(bounding_boxes[i])]
        split_axis == split_axis_of(centroids)
        midpoint == midpoint_of(centroids, split_axis)
        left(obj) == goes_left(obj, split_axis, midpoint)
        right(obj) == ~goes_left(obj, split_axis, midpoint)
    IN  [bounding_box |-> fold_boxes(bounding_boxes, 1, bounding_boxes[1]),
         split_axis |-> split_axis,
         midpoint |-> midpoint,
         lefts |-> SelectSeq(objs, left),
         rights |-> SelectSeq(objs, right)]

-----------------------------------------------------------------------------
(* hittable/bvh.rs: BVH::hit                                               *)

\* BVH::hit handing on the record of its box test when both children miss.
RECURSIVE BVHNode_hit_box_record(_, _, _, _, _)
BVHNode_hit_box_record(t, path, ray, min_distance, max_distance) ==
    IF t[path].kind = "HittableList"
    THEN TriangleList_hit(t[path].triangles, ray, min_distance, max_distance)
    ELSE LET hit == AABB_hit(t[path].bounding_box, ray, min_distance, max_distance)
         IN  IF hit.some
             THEN LET hit_left == BVHNode_hit_box_record(t, Append(path, "left"), ray,
                                                         min_distance, max_distance)
                  IN  IF hit_left.some
                      THEN LET hit_right ==
                                   BVHNode_hit_box_record(t, Append(path, "right"), ray,
                                                          min_distance, hit_left.distance)
                           IN  IF hit_right.some THEN hit_right ELSE hit_left
                      ELSE LET hit_right ==
                                   BVHNode_hit_box_record(t, Append(path, "right"), ray,
                                                          min_distance, max_distance)
                           IN  IF hit_right.some THEN hit_right ELSE hit
             ELSE None

\* BVH::hit searching the right child over the whole interval whatever the
\* left child found.
RECURSIVE BVHNode_hit_right_unbounded(_, _, _, _, _)
BVHNode_hit_right_unbounded(t, path, ray, min_distance, max_distance) ==
    IF t[path].kind = "HittableList"
    THEN TriangleList_hit(t[path].triangles, ray, min_distance, max_distance)
    ELSE IF AABB_hit(t[path].bounding_box, ray, min_distance, max_distance).some
    THEN LET hit_left == BVHNode_hit_right_unbounded(t, Append(path, "left"), ray,
                                                     min_distance, max_distance)
             hit_right == BVHNode_hit_right_unbounded(t, Append(path, "right"), ray,
                                                      min_distance, max_distance)
         IN  IF hit_right.some THEN hit_right ELSE hit_left
    ELSE None

\* BVHNode::hit and BVH::hit on the node at `path` of tree t.
RECURSIVE BVHNode_hit(_, _, _, _, _)
BVHNode_hit(t, path, ray, min_distance, max_distance) ==
    IF t[path].kind = "HittableList"
    THEN TriangleList_hit(t[path].triangles, ray, min_distance, max_distance)
    ELSE IF AABB_hit(t[path].bounding_box, ray, min_distance, max_distance).some
    THEN LET hit_left == BVHNode_hit(t, Append(path, "left"), ray,
                                     min_distance, max_distance)
         IN  IF hit_left.some
             THEN LET hit_right == BVHNode_hit(t, Append(path, "right"), ray,
                                               min_distance, hit_left.distance)
                  IN  IF hit_right.some THEN hit_right ELSE hit_left
             ELSE BVHNode_hit(t, Append(path, "right"), ray, min_distance, max_distance)
    ELSE None

BVH_hit(t, ray, min_distance, max_distance) ==
    BVHNode_hit(t, <<>>, ray, min_distance, max_distance)

-----------------------------------------------------------------------------
(* Bounds and input universes.                                             *)

\* The longest list of triangles given to BVH::build.
MaxTris == 3

\* The greatest max_at_leaf.
MaxLeaf == 2

\* The call stack holds this many activations of BVH::build; one more is a
\* stack overflow.  A recursion on strictly shorter lists of at least two
\* triangles never needs more than MaxTris - 1.
MaxCallDepth == MaxTris + 1

Lambertian == "Lambertian"

\* Triangles with small integer coordinates: two flat ones in the plane
\* z = 0, one of them sharing its box with a third (the two halves of a
\* quad), a flat one in z = 2 and a slanted one.
TriPool ==
    { Triangle(<<Vec3(0, 0, 0), Vec3(3, 0, 0), Vec3(0, 3, 0)>>, Lambertian),
      Triangle(<<Vec3(3, 3, 0), Vec3(0, 3, 0), Vec3(3, 0, 0)>>, Lambertian),
      Triangle(<<Vec3(1, 1, 0), Vec3(4, 1, 0), Vec3(1, 4, 0)>>, Lambertian),
      Triangle(<<Vec3(0, 0, 2), Vec3(3, 0, 2), Vec3(0, 3, 2)>>, Lambertian),
      Triangle(<<Vec3(2, 2, 1), Vec3(4, 2, 1), Vec3(2, 4, 3)>>, Lambertian) }

\* Triangles whose x coordinates need all 24 bits of an f32 (unit 2^-23:
\* x is about 1.334): two halves of a quad and a neighbour.
TriPoolF32 ==
    { Triangle(<<Vec3(11190177, 0, 0), Vec3(11190179, 0, 0), Vec3(11190177, 2, 0)>>,
               Lambertian),
      Triangle(<<Vec3(11190179, 2, 0), Vec3(11190177, 2, 0), Vec3(11190179, 0, 0)>>,
               Lambertian),
      Triangle(<<Vec3(11190181, 0, 0), Vec3(11190183, 0, 0), Vec3(11190181, 2, 0)>>,
               Lambertian) }

SeqsUpTo(S, n) == UNION { [1..k -> S] : k \in 1..n }

\* Ray { origin, direction, .. }: the struct, with the direction as given
\* (Ray::new would normalise it first).
Ray(origin, direction) == [origin |-> origin, direction |-> direction]

Rays ==
    { Ray(o, d) : o \in { Vec3(1, 1, 4), Vec3(1, 1, 1), Vec3(-1, 1, 0), Vec3(3, 3, 4),
                         Vec3(1, 1, -1) },
                  d \in { Vec3(0, 0, -1), Vec3(0, 0, 1), Vec3(1, 0, 0), Vec3(1, 0, -1) } }

Intervals ==
    { <<EPSILON, MAX_HIT_DISTANCE>>, <<FInt(0), FInt(3)>>, <<FInt(1), FInt(5)>> }

NoQuery == [asked |-> FALSE]

-----------------------------------------------------------------------------
(* BVH::build as a machine: one activation record per call in progress.    *)

Frame(objs, path, stage) == [objs |-> objs, path |-> path, stage |-> stage]

Top == stack[Len(stack)]

SetStage(stage) == [stack EXCEPT ![Len(stack)].stage = stage]

\* A child built with >= in the place of >: a side of exactly max_at_leaf
\* triangles is given to BVH::build too.
BuildChild_from_max_at_leaf(f, side, name, next_stage) ==
    IF Len(side) >= max_at_leaf
    THEN IF Len(stack) >= MaxCallDepth
         THEN /\ bpc' = "overflow"
              /\ UNCHANGED <<stack, tree>>
         ELSE /\ stack' = Append(SetStage(next_stage),
                                 Frame(side, Append(f.path, name), "enter"))
              /\ UNCHANGED <<tree, bpc>>
    ELSE IF side = <<>>
         THEN /\ bpc' = "panic"
              /\ UNCHANGED <<stack, tree>>
         ELSE /\ tree' = (Append(f.path, name) :> TriangleList_new(side)) @@ tree
              /\ stack' = SetStage(next_stage)
              /\ UNCHANGED bpc

\* A child of the node at f.path: BVH::build on side when it holds more than
\* max_at_leaf triangles, else TriangleList::new(side), which indexes
\* side[0] and panics on an empty vector.
BuildChild(f, side, name, next_stage) ==
    IF Len(side) > max_at_leaf
    THEN IF Len(stack) >= MaxCallDepth
         THEN /\ bpc' = "overflow"
              /\ UNCHANGED <<stack, tree>>
         ELSE /\ stack' = Append(SetStage(next_stage),
                                 Frame(side, Append(f.path, name), "enter"))
              /\ UNCHANGED <<tree, bpc>>
    ELSE IF side = <<>>
         THEN /\ bpc' = "panic"
              /\ UNCHANGED <<stack, tree>>
         ELSE /\ tree' = (Append(f.path, name) :> TriangleList_new(side)) @@ tree
              /\ stack' = SetStage(next_stage)
              /\ UNCHANGED bpc

\* BVH::build, lines 82-140: boxes, centroids, split and the left child.
\* bounding_boxes[0] panics when objects is empty.
BuildCall ==
    /\ bpc = "building"
    /\ Top.stage = "enter"
    /\ IF Top.objs = <<>>
       THEN /\ bpc' = "panic"
            /\ UNCHANGED <<stack, tree>>
       ELSE BuildChild(Top, build_partition(Top.objs).lefts, "left", "right")
    /\ UNCHANGED <<objects, max_at_leaf, query, bvh_hit, list_hit>>
    /\ UNCHANGED <<boxVars, listVars, traceVars, jitterVars, renderVars, shapeVars>>

\* BVH::build, lines 141-146: the right child, once the left one is built.
BuildRight ==
    /\ bpc = "building"
    /\ Top.stage = "right"
    /\ BuildChild(Top, build_partition(Top.objs).rights, "right", "return")
    /\ UNCHANGED <<objects, max_at_leaf, query, bvh_hit, list_hit>>
    /\ UNCHANGED <<boxVars, listVars, traceVars, jitterVars, renderVars, shapeVars>>

\* BVH::build, lines 148-152: the node is returned to the caller.
BuildReturn ==
    /\ bpc = "building"
    /\ Top.stage = "return"
    /\ tree' = (Top.path :> [kind |-> "BVH",
                             bounding_box |-> build_partition(Top.objs).bounding_box])
               @@ tree
    /\ stack' = SubSeq(stack, 1, Len(stack) - 1)
    /\ bpc' = IF Len(stack) = 1 THEN "built" ELSE "building"
    /\ UNCHANGED <<objects, max_at_leaf, query, bvh_hit, list_hit>>
    /\ UNCHANGED <<boxVars, listVars, traceVars, jitterVars, renderVars, shapeVars>>

\* A ray is sent into the built tree (Mesh::hit forwards to BVH::hit), and
\* the same ray into the flat list of the same triangles.  hit is a pure
\* function of the tree and the ray, so one query per behaviour shows them all.
HitQuery ==
    /\ bpc = "built"
    /\ ~query.asked
    /\ \E ray \in Rays, iv \in Intervals :
          /\ query' = [asked |-> TRUE, ray |-> ray,
                       min_distance |-> iv[1], max_distance |-> iv[2]]
          /\ bvh_hit' = BVH_hit(tree, ray, iv[1], iv[2])
          /\ list_hit' = TriangleList_hit(objects, ray, iv[1], iv[2])
    /\ UNCHANGED <<objects, max_at_leaf, stack, tree, bpc>>
    /\ UNCHANGED <<boxVars, listVars, traceVars, jitterVars, renderVars, shapeVars>>

\* The parts of the program a specification does not exercise stay idle.
IdleBVH ==
    /\ objects = <<>>
    /\ max_at_leaf = 1
    /\ stack = <<>>
    /\ tree = <<>>
    /\ bpc = "idle"
    /\ query = NoQuery
    /\ bvh_hit = None
    /\ list_hit = None

IdleBox ==
    /\ box_first = NoBox
    /\ box_second = NoBox
    /\ box_surrounding = NoBox
    /\ box_query = [asked |-> FALSE]
    /\ box_hit = None

IdleList ==
    /\ hl_objects = <<>>
    /\ hl_query = NoQuery
    /\ hl_hit = None
    /\ hl_box = [asked |-> FALSE]

IdleTrace ==
    /\ scene = {}
    /\ depth_limit = 0
    /\ calls = <<>>
    /\ ret = 0
    /\ tpc = "idle"

IdleRender ==
    /\ world = [built |-> FALSE]
    /\ tasks = <<>>
    /\ pixels = <<>>
    /\ rng_outcome = 0
    /\ rpc = "idle"
    /\ img = [made |-> FALSE]

IdleShape ==
    /\ shape = [type |-> "none"]
    /\ shape_query = [asked |-> FALSE]
    /\ shape_hit = [some |-> FALSE]
    /\ shape_box = [asked |-> FALSE]

IdleJitter ==
    /\ jitter_boxes = <<>>
    /\ loop_j = 0
    /\ loop_i = 0
    /\ jpc = "idle"
    /\ jitter_canonical = <<>>

InitBuild(pool) ==
    /\ objects \in SeqsUpTo(pool, MaxTris)
    /\ max_at_leaf \in 1..MaxLeaf
    /\ stack = <<Frame(objects, <<>>, "enter")>>
    /\ tree = <<>>
    /\ bpc = "building"
    /\ query = NoQuery
    /\ bvh_hit = None
    /\ list_hit = None
    /\ IdleBox
    /\ IdleList
    /\ IdleTrace
    /\ IdleJitter
    /\ IdleRender
    /\ IdleShape

\* Mesh::create then rays: build over the geometric universe, then queries.
InitBVH == InitBuild(TriPool)

NextBVH == BuildCall \/ BuildRight \/ BuildReturn \/ HitQuery

SpecBVH == InitBVH /\ [][NextBVH]_vars

\* BVH::build alone, over triangles with full-precision coordinates.
InitBuildF32 == InitBuild(TriPoolF32)

NextBuild == BuildCall \/ BuildRight \/ BuildReturn

SpecBuildF32 == InitBuildF32 /\ [][NextBuild]_vars

-----------------------------------------------------------------------------
(* AABB::surrounding_box on its own.                                       *)

\* The greatest coordinate of the boxes given to surrounding_box.
MaxCoord == 1

\* The boxes with minimum_point <= maximum_point on each axis.
Boxes ==
    LET Grid == (0..MaxCoord) \X (0..MaxCoord) \X (0..MaxCoord)
    IN  { b \in [minimum_point : Grid, maximum_point : Grid] :
            \A k \in Axes : b.minimum_point[k] <= b.maximum_point[k] }

SurroundingBox ==
    /\ ~box_surrounding.some
    /\ box_surrounding' = SomeBox(surrounding_box(box_first.box, box_second.box))
    /\ UNCHANGED <<box_first, box_second, box_query, box_hit>>
    /\ UNCHANGED <<bvhVars, listVars, traceVars, jitterVars, renderVars, shapeVars>>

InitAABB ==
    /\ \E a \in Boxes, b \in Boxes :
          /\ box_first = SomeBox(a)
          /\ box_second = SomeBox(b)
    /\ box_surrounding = NoBox
    /\ box_query = NoQuery
    /\ box_hit = None
    /\ IdleBVH
    /\ IdleList
    /\ IdleTrace
    /\ IdleJitter
    /\ IdleRender
    /\ IdleShape

NextAABB == SurroundingBox

SpecAABB == InitAABB /\ [][NextAABB]_vars

\* AABB::hit on its own: rays towards the unit boxes from three corners
\* outside them, none parallel to a face.
BoxRays ==
    { Ray(o, d) : o \in { Vec3(-1, -1, -1), Vec3(-1, 4, -1), Vec3(2, 2, 3) },
                  d \in { Vec3(1, 1, 1), Vec3(1, -1, 1), Vec3(-1, -1, -2) } }

AABBHit ==
    /\ ~box_query.asked
    /\ \E ray \in BoxRays, iv \in Intervals :
          /\ box_query' = [asked |-> TRUE, ray |-> ray,
                           min_distance |-> iv[1], max_distance |-> iv[2]]
          /\ box_hit' = AABB_hit(box_first.box, ray, iv[1], iv[2])
    /\ UNCHANGED <<box_first, box_second, box_surrounding>>
    /\ UNCHANGED <<bvhVars, listVars, traceVars, jitterVars, renderVars, shapeVars>>

InitAABBHit ==
    /\ \E a \in Boxes : box_first = SomeBox(a)
    /\ box_second = NoBox
    /\ box_surrounding = NoBox
    /\ box_query = NoQuery
    /\ box_hit = None
    /\ IdleBVH
    /\ IdleList
    /\ IdleTrace
    /\ IdleJitter
    /\ IdleRender
    /\ IdleShape

NextAABBHit == AABBHit

SpecAABBHit == InitAABBHit /\ [][NextAABBHit]_vars

-----------------------------------------------------------------------------
(* A HittableList: objects are added, then rays and bounding_box are asked. *)

\* The longest HittableList.
MaxItems == 3

\* Two triangles, the two halves of a quad as a TriangleList (a Rectangle's
\* content) and two planes.
ItemPool ==
    { TriangleItem(Triangle(<<Vec3(0, 0, 0), Vec3(3, 0, 0), Vec3(0, 3, 0)>>, Lambertian)),
      TriangleItem(Triangle(<<Vec3(0, 0, 2), Vec3(3, 0, 2), Vec3(0, 3, 2)>>, Lambertian)),
      TriangleListItem(<< Triangle(<<Vec3(0, 0, 3), Vec3(3, 0, 3), Vec3(0, 3, 3)>>, Lambertian),
                          Triangle(<<Vec3(3, 3, 1), Vec3(0, 3, 1), Vec3(3, 0, 1)>>, Lambertian) >>),
      Plane(Vec3(0, 0, -1), Vec3(0, 0, 1), Lambertian),
      Plane(Vec3(2, 0, 0), Vec3(1, 0, 0), Lambertian) }

\* The rays sent into the list and the intervals they are asked on.
ListRays ==
    { Ray(Vec3(1, 1, 4), Vec3(0, 0, -1)), Ray(Vec3(1, 1, 1), Vec3(0, 0, 1)),
      Ray(Vec3(1, 1, 1), Vec3(0, 0, -1)), Ray(Vec3(-1, 1, 0), Vec3(1, 0, 0)),
      Ray(Vec3(1, 1, 4), Vec3(1, 0, -1)), Ray(Vec3(3, 3, 4), Vec3(0, 0, -1)) }

ListIntervals == { <<EPSILON, MAX_HIT_DISTANCE>>, <<FInt(1), FInt(5)>> }

NotAsked == [asked |-> FALSE]

\* HittableList::add.  One question, a ray or the bounding box, is asked of
\* the list as it stands; the answer kept is dropped when the list grows.
HittableList_add ==
    /\ Len(hl_objects) < MaxItems
    /\ \E hittable \in ItemPool : hl_objects' = Append(hl_objects, hittable)
    /\ hl_query' = NoQuery
    /\ hl_hit' = None
    /\ hl_box' = NotAsked
    /\ UNCHANGED <<bvhVars, boxVars, traceVars, jitterVars, renderVars, shapeVars>>

\* A ray is sent into the list (ray_color: world.hit).
HittableListHit ==
    /\ ~hl_query.asked
    /\ ~hl_box.asked
    /\ \E ray \in ListRays, iv \in ListIntervals :
          /\ hl_query' = [asked |-> TRUE, ray |-> ray,
                          min_distance |-> iv[1], max_distance |-> iv[2]]
          /\ hl_hit' = HittableList_hit(hl_objects, ray, iv[1], iv[2])
    /\ UNCHANGED <<hl_objects, hl_box>>
    /\ UNCHANGED <<bvhVars, boxVars, traceVars, jitterVars, renderVars, shapeVars>>

HittableListBoundingBox ==
    /\ ~hl_box.asked
    /\ ~hl_query.asked
    /\ hl_box' = [asked |-> TRUE, result |-> HittableList_bounding_box(hl_objects)]
    /\ UNCHANGED <<hl_objects, hl_query, hl_hit>>
    /\ UNCHANGED <<bvhVars, boxVars, traceVars, jitterVars, renderVars, shapeVars>>

\* HittableList::new().
InitList ==
    /\ hl_objects = <<>>
    /\ hl_query = NoQuery
    /\ hl_hit = None
    /\ hl_box = NotAsked
    /\ IdleBVH
    /\ IdleBox
    /\ IdleTrace
    /\ IdleJitter
    /\ IdleRender
    /\ IdleShape

NextList == HittableList_add \/ HittableListHit \/ HittableListBoundingBox

SpecList == InitList /\ [][NextList]_vars

-----------------------------------------------------------------------------
(* The recursive integrator: trace_ray (main.rs: ray_color) and the         *)
(* materials' shade (material.rs, material/*.rs).  The geometry is          *)
(* abstracted: world.hit on a scene answers None or a hit on any of the     *)
(* scene's materials, a reflected direction may point into or out of the    *)
(* surface, and a refraction may or may not be possible.  Radiance is one   *)
(* channel, an integer; black is 0.                                         *)

\* The largest depth limit given to the outermost call.
MaxDepth == 3

\* The largest value of the sky function.
MaxSky == 1

\* More activation records than a run of depth MaxDepth can hold.
MaxCalls == 2 * MaxDepth + 4

Black == 0

\* Radiance is counted in units of 2^-MaxDepth of the sky's step, so that the
\* halvings of a path of MaxDepth bounces are exact.
RadianceUnit == 2 ^ MaxDepth

\* MaterialType, one material per variant; an albedo is a rational.
MaterialTypes ==
    { [type |-> "Lambertian", albedo |-> FDiv(1, 2)],
      [type |-> "Metal", albedo |-> FInt(1)],
      [type |-> "Transparent", albedo |-> FInt(1), reflectance |-> 1, transmittance |-> 1,
       refractive_index |-> FDiv(3, 2)],
      [type |-> "DiffuseLight", color |-> 2 * RadianceUnit] }

\* glm::matrix_comp_mult(&albedo, &color), one channel.
matrix_comp_mult(albedo, color) == (albedo.n * color) \div albedo.d

NoMaterial == [type |-> "None"]

\* cos_theta_i = dot(outward_normal, -incoming_ray.direction) of the hits on a
\* transparent surface: entering along the normal, leaving at 60 degrees to
\* it.
CosPool == { FInt(1), FDiv(-1, 2) }

\* 1.0 - (1.0 - cos_theta_i * cos_theta_i) / (eta * eta) < 0.0 for rationals
\* cos_theta_i and eta > 0, brought to the common denominator.
refraction_impossible(cos_theta_i, eta) ==
    cos_theta_i.d * cos_theta_i.d * eta.n * eta.n
        - (cos_theta_i.d * cos_theta_i.d - cos_theta_i.n * cos_theta_i.n) * eta.d * eta.d
    < 0

\* Transparent::total_internal_reflection with eta never inverted.
total_internal_reflection_plain_eta(cos_theta_i, refractive_index) ==
    refraction_impossible(cos_theta_i, refractive_index)

\* Transparent::total_internal_reflection: eta is 1.0 / refractive_index for
\* cos_theta_i < 0.0.
total_internal_reflection(cos_theta_i, refractive_index) ==
    IF cos_theta_i.n < 0
    THEN refraction_impossible(cos_theta_i, [n |-> refractive_index.d,
                                            d |-> refractive_index.n])
    ELSE refraction_impossible(cos_theta_i, refractive_index)

TraceRayFrame(depth) ==
    [fn |-> "trace_ray", depth |-> depth, material |-> NoMaterial,
     pc |-> "start", reflected_color |-> Black, cos_theta_i |-> FInt(1)]

\* The activation record of a shade; the cosine of the hit is kept where the
\* code reads it, for a transparent material.
ShadeFrame(material, depth, cos_theta_i) ==
    [fn |-> "shade", depth |-> depth, material |-> material,
     pc |-> "start", reflected_color |-> Black, cos_theta_i |-> cos_theta_i]

Current == calls[Len(calls)]

At(fn, type, pc) ==
    /\ tpc = "running"
    /\ calls # <<>>
    /\ Current.fn = fn
    /\ Current.material.type = type
    /\ Current.pc = pc

\* return value: the call on top ends; the outermost call's value is the
\* integrator's.
Return(value) ==
    /\ calls' = SubSeq(calls, 1, Len(calls) - 1)
    /\ ret' = value
    /\ tpc' = IF Len(calls) = 1 THEN "done" ELSE "running"

\* trace_ray(.., depth - 1) called from a shade that received depth (u32):
\* at depth 0 the subtraction overflows, which panics in a debug build and
\* wraps to 2^32 - 1 in a release build (not followed further).  The caller
\* resumes at next_pc.
CallTraceRayBelow(depth, next_pc, reflected_color) ==
    IF depth = 0
    THEN /\ tpc' \in {"panic", "wrapped"}
         /\ UNCHANGED <<calls, ret>>
    ELSE /\ Len(calls) < MaxCalls
         /\ calls' = Append([calls EXCEPT ![Len(calls)].pc = next_pc,
                                          ![Len(calls)].reflected_color = reflected_color],
                            TraceRayFrame(depth - 1))
         /\ UNCHANGED <<ret, tpc>>

\* CallTraceRayBelow that passes the depth on as it is.
CallTraceRaySame(depth, next_pc, reflected_color) ==
    /\ Len(calls) < MaxCalls
    /\ calls' = Append([calls EXCEPT ![Len(calls)].pc = next_pc,
                                     ![Len(calls)].reflected_color = reflected_color],
                       TraceRayFrame(depth))
    /\ UNCHANGED <<ret, tpc>>

\* The guard left out.
depth_guard_absent(depth) == TRUE

\* The guard that lets depth 0 through.
depth_guard_from_zero(depth) == depth >= 0

\* The guard of the integrator: if depth > 0.
depth_guard(depth) == depth > 0

\* trace_ray: beyond the depth limit black; else world.hit, and on a hit the
\* material's shade with the same depth, on a miss the sky.
trace_ray ==
    /\ At("trace_ray", "None", "start")
    /\ IF depth_guard(Current.depth)
       THEN \/ \E material \in scene :
                 \E cos_theta_i \in IF material.type = "Transparent" THEN CosPool
                                                                     ELSE {FInt(1)} :
                    /\ Len(calls) < MaxCalls
                    /\ calls' = Append([calls EXCEPT ![Len(calls)].pc = "shading"],
                                       ShadeFrame(material, Current.depth, cos_theta_i))
                    /\ UNCHANGED <<ret, tpc>>
            \/ \E sky \in 0..MaxSky : Return(sky * RadianceUnit)
       ELSE Return(Black)
    /\ UNCHANGED <<scene, depth_limit>>
    /\ UNCHANGED <<bvhVars, boxVars, listVars, jitterVars, renderVars, shapeVars>>

\* trace_ray returns what shade returned.
trace_ray_return ==
    /\ At("trace_ray", "None", "shading")
    /\ Return(ret)
    /\ UNCHANGED <<scene, depth_limit>>
    /\ UNCHANGED <<bvhVars, boxVars, listVars, jitterVars, renderVars, shapeVars>>

\* Lambertian::shade up to its trace_ray call.
Lambertian_shade ==
    /\ At("shade", "Lambertian", "start")
    /\ CallTraceRayBelow(Current.depth, "scattered", Black)
    /\ UNCHANGED <<scene, depth_limit>>
    /\ UNCHANGED <<bvhVars, boxVars, listVars, jitterVars, renderVars, shapeVars>>

\* Lambertian::shade that returns scattered_color as it is.
Lambertian_shade_return_unscaled ==
    /\ At("shade", "Lambertian", "scattered")
    /\ Return(ret)
    /\ UNCHANGED <<scene, depth_limit>>
    /\ UNCHANGED <<bvhVars, boxVars, listVars, jitterVars, renderVars, shapeVars>>

\* Lambertian::shade: albedo (*) scattered_color.
Lambertian_shade_return ==
    /\ At("shade", "Lambertian", "scattered")
    /\ Return(matrix_comp_mult(Current.material.albedo, ret))
    /\ UNCHANGED <<scene, depth_limit>>
    /\ UNCHANGED <<bvhVars, boxVars, listVars, jitterVars, renderVars, shapeVars>>

\* Metal::shade whose trace_ray call passes depth instead of depth - 1.
Metal_shade_same_depth ==
    /\ At("shade", "Metal", "start")
    /\ \/ CallTraceRaySame(Current.depth, "reflected", Black)
       \/ Return(Black)
    /\ UNCHANGED <<scene, depth_limit>>
    /\ UNCHANGED <<bvhVars, boxVars, listVars, jitterVars, renderVars, shapeVars>>

\* Metal::shade: a reflection into the surface is absorbed, else trace_ray
\* on the reflected ray.
Metal_shade ==
    /\ At("shade", "Metal", "start")
    /\ \/ CallTraceRayBelow(Current.depth, "reflected", Black)
       \/ Return(Black)
    /\ UNCHANGED <<scene, depth_limit>>
    /\ UNCHANGED <<bvhVars, boxVars, listVars, jitterVars, renderVars, shapeVars>>

Metal_shade_return ==
    /\ At("shade", "Metal", "reflected")
    /\ Return(ret)
    /\ UNCHANGED <<scene, depth_limit>>
    /\ UNCHANGED <<bvhVars, boxVars, listVars, jitterVars, renderVars, shapeVars>>

\* Transparent::shade up to the trace_ray call on the reflected ray.
Transparent_shade ==
    /\ At("shade", "Transparent", "start")
    /\ CallTraceRayBelow(Current.depth, "reflected", Black)
    /\ UNCHANGED <<scene, depth_limit>>
    /\ UNCHANGED <<bvhVars, boxVars, listVars, jitterVars, renderVars, shapeVars>>

\* Transparent::shade after reflected_color: on total internal reflection
\* return it, else trace_ray on the transmitted ray.
Transparent_shade_reflected ==
    /\ At("shade", "Transparent", "reflected")
    /\ IF total_internal_reflection(Current.cos_theta_i, Current.material.refractive_index)
       THEN Return(ret)
       ELSE CallTraceRayBelow(Current.depth, "transmitted", ret)
    /\ UNCHANGED <<scene, depth_limit>>
    /\ UNCHANGED <<bvhVars, boxVars, listVars, jitterVars, renderVars, shapeVars>>

\* Transparent::shade: the weighted sum of the two colours (the cosines of
\* the weights cancel against the cosine factors).
Transparent_shade_return ==
    /\ At("shade", "Transparent", "transmitted")
    /\ Return(Current.material.reflectance
                  * matrix_comp_mult(Current.material.albedo, Current.reflected_color)
              + Current.material.transmittance
                  * matrix_comp_mult(Current.material.albedo, ret))
    /\ UNCHANGED <<scene, depth_limit>>
    /\ UNCHANGED <<bvhVars, boxVars, listVars, jitterVars, renderVars, shapeVars>>

\* DiffuseLight::shade that scatters like a Lambertian surface.
DiffuseLight_shade_scattering ==
    /\ At("shade", "DiffuseLight", "start")
    /\ CallTraceRayBelow(Current.depth, "scattered", Black)
    /\ UNCHANGED <<scene, depth_limit>>
    /\ UNCHANGED <<bvhVars, boxVars, listVars, jitterVars, renderVars, shapeVars>>

\* DiffuseLight::shade: the colour it emits.
DiffuseLight_shade ==
    /\ At("shade", "DiffuseLight", "start")
    /\ Return(Current.material.color)
    /\ UNCHANGED <<scene, depth_limit>>
    /\ UNCHANGED <<bvhVars, boxVars, listVars, jitterVars, renderVars, shapeVars>>

\* trace_ray(ray, world, lights, sky, depth_limit) on any scene.
InitTrace ==
    /\ scene \in SUBSET MaterialTypes
    /\ depth_limit \in 0..MaxDepth
    /\ calls = <<TraceRayFrame(depth_limit)>>
    /\ ret = Black
    /\ tpc = "running"
    /\ IdleBVH
    /\ IdleBox
    /\ IdleList
    /\ IdleJitter
    /\ IdleRender
    /\ IdleShape

NextTrace ==
    \/ trace_ray
    \/ trace_ray_return
    \/ Lambertian_shade
    \/ Lambertian_shade_return
    \/ Metal_shade
    \/ Metal_shade_return
    \/ Transparent_shade
    \/ Transparent_shade_reflected
    \/ Transparent_shade_return
    \/ DiffuseLight_shade

SpecTrace == InitTrace /\ [][NextTrace]_vars

\* A call in progress takes its next step.
SpecTraceFair == SpecTrace /\ WF_vars(NextTrace)

-----------------------------------------------------------------------------
(* The initialisation of jitter_boxes for one pixel.                       *)

\* main.rs has SAMPLES_LEVEL = 20; the arrangement is explored on a smaller
\* grid.
SAMPLES_LEVEL == 2

\* The draws of rng().gen::<f32>(), in units of 2^-24: the least, 0.0, and
\* the greatest, 1 - 2^-24.
Draws == {0, F32Mantissa - 1}

Cells == (0..(SAMPLES_LEVEL - 1)) \X (0..(SAMPLES_LEVEL - 1))

\* One pass of the body of the loops over j and i.
JitterInitialise ==
    /\ jpc = "initialising"
    /\ \E draw_x \in Draws, draw_y \in Draws :
          jitter_boxes' =
              [jitter_boxes EXCEPT ![<<loop_j, loop_i>>] =
                  << jitter_coordinate(loop_i, loop_j, draw_x, SAMPLES_LEVEL),
                     jitter_coordinate(loop_j, loop_i, draw_y, SAMPLES_LEVEL) >>]
    /\ IF loop_i + 1 < SAMPLES_LEVEL
       THEN /\ loop_i' = loop_i + 1
            /\ UNCHANGED <<loop_j, jpc>>
       ELSE /\ loop_i' = 0
            /\ loop_j' = loop_j + 1
            /\ jpc' = IF loop_j + 1 < SAMPLES_LEVEL THEN "initialising"
                                                    ELSE "initialised"
    /\ UNCHANGED jitter_canonical
    /\ UNCHANGED <<bvhVars, boxVars, listVars, traceVars, renderVars, shapeVars>>

\* [[(0.0, 0.0); SAMPLES_LEVEL]; SAMPLES_LEVEL]
InitJitter ==
    /\ jitter_boxes = [c \in Cells |-> <<FInt(0), FInt(0)>>]
    /\ loop_j = 0
    /\ loop_i = 0
    /\ jpc = "initialising"
    /\ jitter_canonical = <<>>
    /\ IdleBVH
    /\ IdleBox
    /\ IdleList
    /\ IdleTrace
    /\ IdleRender
    /\ IdleShape

NextJitter == JitterInitialise

SpecJitter == InitJitter /\ [][NextJitter]_vars

-----------------------------------------------------------------------------
(* main.rs: shuffle_jittered_sampling on an initialised array.             *)

\* k: (a as f32 + rng().gen::<f32>() * (SAMPLES_LEVEL - a) as f32) as usize,
\* at most SAMPLES_LEVEL - 1.
shuffle_index(a, draw) ==
    LET scaled == F32Round(draw * (SAMPLES_LEVEL - a))
        sum == F32AddInt(a, FInt(scaled))
    IN  Min2((sum.n \div sum.d) \div F32Mantissa, SAMPLES_LEVEL - 1)

\* The arrays the initialisation can leave, the draws being the same along a
\* row j.
InitialisedArrays ==
    { [c \in Cells |-> << jitter_coordinate(c[2], c[1], draws[c[1]][1], SAMPLES_LEVEL),
                          jitter_coordinate(c[1], c[2], draws[c[1]][2], SAMPLES_LEVEL) >>] :
        draws \in [0..(SAMPLES_LEVEL - 1) -> Draws \X Draws] }

\* The first pair of loops: .0 of [j][i] and [k][i] change places.
ShuffleX ==
    /\ jpc = "shuffling_x"
    /\ \E draw \in Draws :
          LET k == shuffle_index(loop_j, draw)
              temp == jitter_boxes[<<loop_j, loop_i>>][1]
              taken == [jitter_boxes EXCEPT ![<<loop_j, loop_i>>][1] =
                                                jitter_boxes[<<k, loop_i>>][1]]
          IN  jitter_boxes' = [taken EXCEPT ![<<k, loop_i>>][1] = temp]
    /\ IF loop_i + 1 < SAMPLES_LEVEL
       THEN /\ loop_i' = loop_i + 1
            /\ UNCHANGED <<loop_j, jpc>>
       ELSE /\ loop_i' = 0
            /\ IF loop_j + 1 < SAMPLES_LEVEL
               THEN loop_j' = loop_j + 1 /\ UNCHANGED jpc
               ELSE loop_j' = 0 /\ jpc' = "shuffling_y"
    /\ UNCHANGED jitter_canonical
    /\ UNCHANGED <<bvhVars, boxVars, listVars, traceVars, renderVars, shapeVars>>

\* The second pair of loops: .1 of [j][i] takes .1 of [j][k], and temp is
\* stored in .0 of [j][k].
ShuffleY ==
    /\ jpc = "shuffling_y"
    /\ \E draw \in Draws :
          LET k == shuffle_index(loop_i, draw)
              temp == jitter_boxes[<<loop_j, loop_i>>][2]
              taken == [jitter_boxes EXCEPT ![<<loop_j, loop_i>>][2] =
                                                jitter_boxes[<<loop_j, k>>][2]]
          IN  jitter_boxes' = [taken EXCEPT ![<<loop_j, k>>][1] = temp]
    /\ IF loop_j + 1 < SAMPLES_LEVEL
       THEN /\ loop_j' = loop_j + 1
            /\ UNCHANGED <<loop_i, jpc>>
       ELSE /\ loop_j' = 0
            /\ IF loop_i + 1 < SAMPLES_LEVEL
               THEN loop_i' = loop_i + 1 /\ UNCHANGED jpc
               ELSE loop_i' = 0 /\ jpc' = "shuffled"
    /\ UNCHANGED jitter_canonical
    /\ UNCHANGED <<bvhVars, boxVars, listVars, traceVars, renderVars, shapeVars>>

\* shuffle_jittered_sampling(&mut jitter_boxes) is called.
InitShuffle ==
    /\ jitter_boxes \in InitialisedArrays
    /\ jitter_canonical = jitter_boxes
    /\ loop_j = 0
    /\ loop_i = 0
    /\ jpc = "shuffling_x"
    /\ IdleBVH
    /\ IdleBox
    /\ IdleList
    /\ IdleTrace
    /\ IdleRender
    /\ IdleShape

NextShuffle == ShuffleX \/ ShuffleY

SpecShuffle == InitShuffle /\ [][NextShuffle]_vars

-----------------------------------------------------------------------------
(* main.rs: main.  The scene is built, then one task per pixel runs in the  *)
(* rayon pool (par_iter().map()), and collect() gathers the results.        *)

\* IMAGE_WIDTH; the image is square, as in main.rs.
IMAGE_WIDTH == 2

IMAGE_HEIGHT == IMAGE_WIDTH

\* The worker threads of the rayon pool.
WorkerPool == {"worker_1", "worker_2"}

WorkerThreads == Cardinality(WorkerPool)

\* A jitter coordinate is counted in units of 1 / (2 * SAMPLES_LEVEL^2): the
\* initialisation formula is exact in them for the draws 0 and 1/2.
JitterUnit == 2 * SAMPLES_LEVEL * SAMPLES_LEVEL

\* (a + (b + draw) / n) / n of the initialisation, in JitterUnits, for a draw
\* given in halves.
canonical_coordinate(a, b, draw) == 2 * (a * SAMPLES_LEVEL + b) + draw

\* jitter_boxes as the sampling loop of a task reads it, every draw of the
\* task being `draw` halves.
JitterBoxes(draw) ==
    [c \in Cells |-> << canonical_coordinate(c[2], c[1], draw),
                        canonical_coordinate(c[1], c[2], draw) >>]

\* pixel_coordinates: x and y both descending, y fastest.
pixel_coordinates ==
    [k \in 1..(IMAGE_WIDTH * IMAGE_HEIGHT) |->
        << IMAGE_WIDTH - 1 - ((k - 1) \div IMAGE_HEIGHT),
           IMAGE_HEIGHT - 1 - ((k - 1) % IMAGE_HEIGHT) >>]

\* The draws of the task of pixel k, fixed by the outcome of the generator.
draws_of(outcome, k) == (outcome + pixel_coordinates[k][1] + pixel_coordinates[k][2]) % 2

\* u = (x_float + jitter_boxes[j][i].0) / image_width.
pixel_u(x, jitter) ==
    LET image_width == IMAGE_WIDTH - 1
        x_float == x
    IN  FDiv(x_float * JitterUnit + jitter[1], image_width * JitterUnit)

\* v = (y_float + jitter_boxes[j][i].1) / image_height.
pixel_v(y, jitter) ==
    LET image_height == IMAGE_HEIGHT - 1
        y_float == image_height - y
    IN  FDiv(y_float * JitterUnit + jitter[2], image_height * JitterUnit)

\* u * vector for a finite u, on vectors whose product with u is whole.
VScale(u, vector) == [k \in Axes |-> (u.n * vector[k]) \div u.d]

VAdd(a, b) == <<a[1] + b[1], a[2] + b[2], a[3] + b[3]>>

\* OrthographicCamera::get_ray.
get_ray(camera, u, v) ==
    Ray(VAdd(VAdd(camera.lower_left_corner, VScale(u, camera.horizontal)),
             VScale(v, camera.vertical)),
        camera.orthogonal_direction)

\* An orthographic camera looking down the z axis, its image plane one
\* JitterUnit wide and high for each pixel step.
RenderCamera ==
    [lower_left_corner |-> Vec3(0, 0, 4),
     horizontal |-> Vec3((IMAGE_WIDTH - 1) * JitterUnit, 0, 0),
     vertical |-> Vec3(0, (IMAGE_HEIGHT - 1) * JitterUnit, 0),
     orthogonal_direction |-> Vec3(0, 0, -1)]

\* Mesh::create for a list no longer than bvh_leaf_max: the BVH is one leaf.
Mesh_create(triangles) == [triangles |-> (<<>> :> TriangleList_new(triangles))]

\* Mesh::hit forwards to BVH::hit.
Mesh_hit(mesh, ray, min_distance, max_distance) ==
    BVH_hit(mesh.triangles, ray, min_distance, max_distance)

\* Two meshes: a triangle over the pixel in the corner, and a quad over the
\* first column and a half.
RenderMeshes ==
    { Mesh_create(<< Triangle(<<Vec3(0, 0, 0), Vec3(2 * JitterUnit, 0, 0),
                                Vec3(0, 2 * JitterUnit, 0)>>, Lambertian) >>),
      Mesh_create(<< Triangle(<<Vec3(0, 0, 1), Vec3(JitterUnit + 1, 0, 1),
                                Vec3(0, 3 * JitterUnit, 1)>>, Lambertian),
                     Triangle(<<Vec3(JitterUnit + 1, 3 * JitterUnit, 1),
                                Vec3(0, 3 * JitterUnit, 1),
                                Vec3(JitterUnit + 1, 0, 1)>>, Lambertian) >>) }

\* lights: point_light1 and point_light2, weights in tenths.
RenderLights ==
    << [position |-> Vec3(1, 2, 1), weight |-> 5],
       [position |-> Vec3(-1, 2, 1), weight |-> 4] >>

Unbuilt == [built |-> FALSE]

World(camera, mesh, lights) ==
    [built |-> TRUE, camera |-> camera, mesh |-> mesh, lights |-> lights]

\* The sky's red channel in units of 1/510, for a ray along an axis (t, the x
\* of the normalised direction, is then the sign of the direction's x):
\* 0.5 * color(245, 64, 64) * (1 - t) + 1.5 * color(255, 201, 34) * t.
sky(ray) ==
    LET t == Sgn(ray.direction[1])
    IN  245 * (1 - t) + 3 * 255 * t

\* ray_color that adds the sky behind whatever the ray hits.
ray_color_sky_behind_hit(ray, mesh, depth) ==
    IF depth > 0 THEN sky(ray) ELSE Black

\* ray_color with one level of depth left below it: a hit is multiplied with
\* the ray_color of depth 0, which is black, and a miss sees the sky.
ray_color(ray, mesh, depth) ==
    IF depth > 0
    THEN IF Mesh_hit(mesh, ray, EPSILON, MAX_HIT_DISTANCE).some
         THEN Black
         ELSE sky(ray)
    ELSE Black

Queued == [pc |-> "queued"]

Sampling(jitter, j, i, pixel_color, u, v) ==
    [pc |-> "sampling", jitter_boxes |-> jitter, j |-> j, i |-> i,
     pixel_color |-> pixel_color, u |-> u, v |-> v]

Finished(pixel, pixel_color) ==
    [pc |-> "finished", pixel |-> pixel, pixel_color |-> pixel_color]

\* main up to the parallel iterator: camera, mesh, lights, pixel_coordinates.
MainSetup ==
    /\ rpc = "start"
    /\ \E mesh \in RenderMeshes : world' = World(RenderCamera, mesh, RenderLights)
    /\ tasks' = [k \in DOMAIN pixel_coordinates |-> Queued]
    /\ rpc' = "tracing"
    /\ UNCHANGED <<pixels, rng_outcome, img>>
    /\ UNCHANGED <<bvhVars, boxVars, listVars, traceVars, jitterVars, shapeVars>>

\* The closure creating the world and populating it for itself, over the one
\* the other tasks read.
TaskStart_rebuilding(k) ==
    /\ rpc = "tracing"
    /\ tasks[k].pc = "queued"
    /\ \A earlier \in 1..(k - 1) : tasks[earlier].pc # "queued"
    /\ Cardinality({ other \in DOMAIN tasks : tasks[other].pc = "sampling" }) < WorkerThreads
    /\ \E mesh \in RenderMeshes : world' = World(RenderCamera, mesh, RenderLights)
    /\ tasks' = [tasks EXCEPT ![k] =
                    Sampling(JitterBoxes(draws_of(rng_outcome, k)), 0, 0, Black,
                             FInt(0), FInt(0))]
    /\ UNCHANGED <<pixels, rng_outcome, rpc, img>>
    /\ UNCHANGED <<bvhVars, boxVars, listVars, traceVars, jitterVars, shapeVars>>

\* A worker thread takes the next pixel and runs the closure up to the
\* sampling loops: jitter_boxes, pixel_color, x_float and y_float.
TaskStart(k) ==
    /\ rpc = "tracing"
    /\ tasks[k].pc = "queued"
    /\ \A earlier \in 1..(k - 1) : tasks[earlier].pc # "queued"
    /\ Cardinality({ other \in DOMAIN tasks : tasks[other].pc = "sampling" }) < WorkerThreads
    /\ tasks' = [tasks EXCEPT ![k] =
                    Sampling(JitterBoxes(draws_of(rng_outcome, k)), 0, 0, Black,
                             FInt(0), FInt(0))]
    /\ UNCHANGED <<world, pixels, rng_outcome, rpc, img>>
    /\ UNCHANGED <<bvhVars, boxVars, listVars, traceVars, jitterVars, shapeVars>>

\* One pass of the inner sampling loop, whose accumulator is the pixel_color
\* of the pixel `into`.
sample_into(k, into) ==
    LET task == tasks[k]
        jitter == task.jitter_boxes[<<task.j, task.i>>]
        u == pixel_u(pixel_coordinates[k][1], jitter)
        v == pixel_v(pixel_coordinates[k][2], jitter)
        r == get_ray(world.camera, u, v)
        last == task.i = SAMPLES_LEVEL - 1
    IN  Sampling(task.jitter_boxes,
                 IF last THEN task.j + 1 ELSE task.j,
                 IF last THEN 0 ELSE task.i + 1,
                 tasks[into].pixel_color + ray_color(r, world.mesh, 1),
                 u, v)

\* The sampling loop with one pixel_color for all the tasks, declared outside
\* the closure: the accumulator is that of the first pixel being sampled.
sample_shared(k) ==
    sample_into(k, CHOOSE into \in DOMAIN tasks :
                      /\ tasks[into].pc = "sampling"
                      /\ \A other \in DOMAIN tasks :
                            tasks[other].pc = "sampling" => into <= other)

\* The sampling loop of the closure: pixel_color is the task's own.
sample(k) == sample_into(k, k)

TaskSample(k) ==
    /\ rpc = "tracing"
    /\ tasks[k].pc = "sampling"
    /\ tasks[k].j < SAMPLES_LEVEL
    /\ tasks' = [tasks EXCEPT ![k] = sample(k)]
    /\ UNCHANGED <<world, pixels, rng_outcome, rpc, img>>
    /\ UNCHANGED <<bvhVars, boxVars, listVars, traceVars, jitterVars, shapeVars>>

\* The closure returns ((*x, *y), pixel_color); its locals are dropped.
TaskFinish(k) ==
    /\ rpc = "tracing"
    /\ tasks[k].pc = "sampling"
    /\ tasks[k].j = SAMPLES_LEVEL
    /\ tasks' = [tasks EXCEPT ![k] = Finished(pixel_coordinates[k], tasks[k].pixel_color)]
    /\ UNCHANGED <<world, pixels, rng_outcome, rpc, img>>
    /\ UNCHANGED <<bvhVars, boxVars, listVars, traceVars, jitterVars, shapeVars>>

\* collect(): the results in the order of pixel_coordinates.
Collect ==
    /\ rpc = "tracing"
    /\ \A k \in DOMAIN tasks : tasks[k].pc = "finished"
    /\ pixels' = [k \in DOMAIN tasks |-> <<tasks[k].pixel, tasks[k].pixel_color>>]
    /\ rpc' = "collected"
    /\ UNCHANGED <<world, tasks, rng_outcome, img>>
    /\ UNCHANGED <<bvhVars, boxVars, listVars, traceVars, jitterVars, shapeVars>>

\* color.rs: the least scaled values, in units of 2^-16, that vec3_to_rgb
\* takes to 1, 2, .. 255: ((c / 255) ^ 2.2, the inverse of the gamma step).
GammaSteps ==
    << 1, 2, 4, 8, 12, 18, 25, 33, 42, 53, 66, 79, 94, 111, 129,
       149, 170, 193, 217, 243, 270, 299, 330, 362, 396, 432, 469, 508, 549, 592,
       636, 682, 730, 779, 830, 883, 938, 995, 1054, 1114, 1176, 1240, 1306, 1374, 1443,
       1515, 1588, 1663, 1740, 1819, 1900, 1983, 2068, 2155, 2244, 2335, 2427, 2522, 2618, 2717,
       2818, 2920, 3025, 3132, 3240, 3351, 3464, 3578, 3695, 3814, 3935, 4058, 4183, 4310, 4439,
       4570, 4703, 4839, 4976, 5116, 5258, 5402, 5548, 5696, 5846, 5998, 6153, 6309, 6468, 6629,
       6792, 6958, 7125, 7295, 7466, 7640, 7817, 7995, 8176, 8358, 8543, 8730, 8920, 9111, 9305,
       9501, 9700, 9900, 10103, 10308, 10515, 10725, 10937, 11151, 11367, 11586, 11806, 12030, 12255, 12483,
       12713, 12945, 13180, 13416, 13656, 13897, 14141, 14387, 14635, 14886, 15139, 15395, 15652, 15912, 16175,
       16440, 16707, 16976, 17248, 17522, 17799, 18077, 18359, 18642, 18928, 19217, 19507, 19801, 20096, 20394,
       20694, 20997, 21302, 21610, 21920, 22232, 22547, 22864, 23183, 23505, 23830, 24156, 24486, 24817, 25152,
       25488, 25827, 26169, 26512, 26859, 27208, 27559, 27913, 28269, 28627, 28989, 29352, 29718, 30087, 30458,
       30831, 31207, 31586, 31967, 32350, 32736, 33125, 33515, 33909, 34305, 34703, 35104, 35508, 35914, 36322,
       36733, 37147, 37563, 37982, 38403, 38827, 39253, 39682, 40113, 40547, 40983, 41422, 41864, 42308, 42754,
       43203, 43655, 44109, 44566, 45026, 45488, 45952, 46420, 46889, 47362, 47836, 48314, 48794, 49277, 49762,
       50250, 50740, 51233, 51729, 52227, 52728, 53232, 53738, 54246, 54758, 55272, 55788, 56307, 56829, 57354,
       57881, 58410, 58943, 59478, 60015, 60555, 61098, 61644, 62192, 62743, 63296, 63852, 64411, 64972, 65536 >>

\* The unit of GammaSteps and of a colour: 2^-16, and 1/510 (see sky).
GammaUnit == 2 ^ 16

ColourUnit == 2 * 255

\* vec3_to_rgb, one channel: scale by the samples per pixel, raise to 1/2.2,
\* clamp to [0, 1], times 255, as u8.
vec3_to_rgb(vec, samples_level) ==
    LET scaled == FDiv(vec, ColourUnit * samples_level * samples_level)
    IN  Cardinality({ c \in DOMAIN GammaSteps :
                        GammaSteps[c] * scaled.d <= scaled.n * GammaUnit })

NoImage == [made |-> FALSE]

Coordinates == (0..(IMAGE_WIDTH - 1)) \X (0..(IMAGE_HEIGHT - 1))

\* image::RgbImage::new(width, height): every pixel black.  `put` counts the
\* put_pixel calls on each coordinate, `next` is the place of the loop over
\* pixels.
RgbImage_new(width, height) ==
    [made |-> TRUE,
     buffer |-> [c \in (0..(width - 1)) \X (0..(height - 1)) |-> 0],
     put |-> [c \in (0..(width - 1)) \X (0..(height - 1)) |-> 0],
     next |-> 1]

\* put_pixel with x and y exchanged.
put_pixel_exchanged(image, x, y, rgb) ==
    [image EXCEPT !.buffer[<<y, x>>] = rgb, !.put[<<y, x>>] = @ + 1]

\* img.put_pixel(x, y, rgb).
put_pixel(image, x, y, rgb) ==
    [image EXCEPT !.buffer[<<x, y>>] = rgb, !.put[<<x, y>>] = @ + 1]

\* let mut img = image::RgbImage::new(IMAGE_WIDTH, IMAGE_HEIGHT).
NewImage ==
    /\ rpc = "collected"
    /\ img' = RgbImage_new(IMAGE_WIDTH, IMAGE_HEIGHT)
    /\ rpc' = "writing"
    /\ UNCHANGED <<world, tasks, pixels, rng_outcome>>
    /\ UNCHANGED <<bvhVars, boxVars, listVars, traceVars, jitterVars, shapeVars>>

\* One pass of the loop over pixels: put_pixel of the converted colour.
PutPixel ==
    /\ rpc = "writing"
    /\ img.next <= Len(pixels)
    /\ LET pixel == pixels[img.next]
       IN  img' = [put_pixel(img, pixel[1][1], pixel[1][2],
                             vec3_to_rgb(pixel[2], SAMPLES_LEVEL))
                      EXCEPT !.next = @ + 1]
    /\ UNCHANGED <<world, tasks, pixels, rng_outcome, rpc>>
    /\ UNCHANGED <<bvhVars, boxVars, listVars, traceVars, jitterVars, shapeVars>>

\* img.save("out.png"), after the loop.
SaveImage ==
    /\ rpc = "writing"
    /\ img.next > Len(pixels)
    /\ rpc' = "saved"
    /\ UNCHANGED <<world, tasks, pixels, rng_outcome, img>>
    /\ UNCHANGED <<bvhVars, boxVars, listVars, traceVars, jitterVars, shapeVars>>

InitRender ==
    /\ world = Unbuilt
    /\ tasks = <<>>
    /\ pixels = <<>>
    /\ rng_outcome \in {0, 1}
    /\ rpc = "start"
    /\ img = NoImage
    /\ IdleBVH
    /\ IdleBox
    /\ IdleList
    /\ IdleTrace
    /\ IdleJitter
    /\ IdleShape

NextRender ==
    \/ MainSetup
    \/ \E k \in DOMAIN tasks : TaskStart(k)
    \/ \E k \in DOMAIN tasks : TaskSample(k)
    \/ \E k \in DOMAIN tasks : TaskFinish(k)
    \/ Collect
    \/ NewImage
    \/ PutPixel
    \/ SaveImage

SpecRender == InitRender /\ [][NextRender]_vars

\* The steps other than a pass of a sampling loop.
SetupStartFinishWrite ==
    \/ MainSetup
    \/ \E k \in DOMAIN tasks : TaskStart(k)
    \/ \E k \in DOMAIN tasks : TaskFinish(k)
    \/ Collect
    \/ NewImage
    \/ PutPixel
    \/ SaveImage

SomeTaskSamples == \E k \in DOMAIN tasks : TaskSample(k)

\* ENABLED <<SomeTaskSamples>>_vars, from the guard of TaskSample (a pass
\* always moves j or i).
SamplingPending ==
    /\ rpc = "tracing"
    /\ \E k \in DOMAIN tasks : tasks[k].pc = "sampling" /\ tasks[k].j < SAMPLES_LEVEL

\* The pool runs a task that can take a step, and main goes on when it can:
\* weak fairness of the steps, that of the sampling passes written out with
\* its enabling condition.
SpecRenderFair ==
    /\ SpecRender
    /\ WF_vars(SetupStartFinishWrite)
    /\ ([]<>~SamplingPending \/ []<><<SomeTaskSamples>>_vars)

-----------------------------------------------------------------------------
(* hittable/sphere.rs, hittable/rectangle.rs, hittable/mesh.rs and the      *)
(* Hittable trait: hit and bounding_box asked of one object of each kind.   *)

\* The denominator of the grid that f32::sqrt is rounded to here (f32 rounds
\* to 24 significant bits; the model keeps four binary places).
SqrtGrid == 16

\* f32::sqrt of a positive integer: the nearest multiple of 1 / SqrtGrid.
sqrt(n) ==
    LET r == CHOOSE r \in 0..n : r * r <= n /\ n < (r + 1) * (r + 1)
        m == CHOOSE m \in (SqrtGrid * r)..(SqrtGrid * (r + 1)) :
                 /\ (2 * m - 1) * (2 * m - 1) <= 4 * n * SqrtGrid * SqrtGrid
                 /\ 4 * n * SqrtGrid * SqrtGrid < (2 * m + 1) * (2 * m + 1)
    IN  FDiv(m, SqrtGrid)

\* p / q and p * q of rationals, and the difference of an integer and a rational.
FQuot(p, q) ==
    LET g == Max2(1, GCD(Abs(p.n), Abs(q.n)))
        h == Max2(1, GCD(p.d, q.d))
    IN  FDiv((p.n \div g) * (q.d \div h), (p.d \div h) * (q.n \div g))

FTimes(k, q) == FDiv(k * q.n, q.d)

FMinus(k, q) == FDiv(k * q.d - q.n, q.d)

Sphere(center, radius, material) ==
    [type |-> "Sphere", center |-> center, radius |-> radius, material |-> material]

\* Sphere::hit returning the farther root untested when the nearer is outside
\* the interval.
Sphere_hit_far_root_untested(sphere, ray, min_distance, max_distance) ==
    LET oc == VSub(ray.origin, sphere.center)
        a == Dot(ray.direction, ray.direction)
        half_b == Dot(oc, ray.direction)
        c == Dot(oc, oc) - sphere.radius * sphere.radius
        discriminant == half_b * half_b - a * c
    IN  IF discriminant > 0
        THEN LET root == sqrt(discriminant)
                 x == FQuot(FMinus(-half_b, root), FInt(a))
                 x_far == FQuot(FMinus(-half_b, FTimes(-1, root)), FInt(a))
             IN  IF FLt(x, max_distance) /\ FLt(min_distance, x)
                 THEN Some(Ray_at(ray, x), x, sphere.material)
                 ELSE Some(Ray_at(ray, x_far), x_far, sphere.material)
        ELSE None

\* Sphere::hit: the nearer root if it is inside the interval, else the farther.
Sphere_hit(sphere, ray, min_distance, max_distance) ==
    LET oc == VSub(ray.origin, sphere.center)
        a == Dot(ray.direction, ray.direction)
        half_b == Dot(oc, ray.direction)
        c == Dot(oc, oc) - sphere.radius * sphere.radius
        discriminant == half_b * half_b - a * c
    IN  IF discriminant > 0
        THEN LET root == sqrt(discriminant)
                 x == FQuot(FMinus(-half_b, root), FInt(a))
                 x_far == FQuot(FMinus(-half_b, FTimes(-1, root)), FInt(a))
             IN  IF FLt(x, max_distance) /\ FLt(min_distance, x)
                 THEN Some(Ray_at(ray, x), x, sphere.material)
                 ELSE IF FLt(x_far, max_distance) /\ FLt(min_distance, x_far)
                      THEN Some(Ray_at(ray, x_far), x_far, sphere.material)
                      ELSE None
        ELSE None

\* Sphere::bounding_box with the two corners exchanged.
Sphere_bounding_box_exchanged(sphere) ==
    [minimum_point |-> [k \in Axes |-> sphere.center[k] + sphere.radius],
     maximum_point |-> [k \in Axes |-> sphere.center[k] - sphere.radius]]

\* Sphere::bounding_box: center -/+ (radius, radius, radius).
Sphere_bounding_box(sphere) ==
    [minimum_point |-> [k \in Axes |-> sphere.center[k] - sphere.radius],
     maximum_point |-> [k \in Axes |-> sphere.center[k] + sphere.radius]]

\* Rectangle::new: two triangles over the four corners, in a TriangleList.
Rectangle_new(points, material) ==
    [type |-> "Rectangle",
     material |-> material,
     triangles |-> TriangleList_new(<< Triangle(<<points[1], points[2], points[3]>>, material),
                                       Triangle(<<points[3], points[4], points[1]>>, material) >>)]

\* Rectangle::hit and Rectangle::bounding_box forward to the TriangleList.
Rectangle_hit(rectangle, ray, min_distance, max_distance) ==
    TriangleList_hit(rectangle.triangles.triangles, ray, min_distance, max_distance)

Rectangle_bounding_box(rectangle) == SomeBox(rectangle.triangles.bounding_box)

\* BVH::build on a list that its partition cuts into two non-empty sides, each
\* no longer than max_at_leaf: a node over two leaves.
BVH_build_two_leaves(objs) ==
    LET partition == build_partition(objs)
    IN  (<<>> :> [kind |-> "BVH", bounding_box |-> partition.bounding_box])
        @@ (<<"left">> :> TriangleList_new(partition.lefts))
        @@ (<<"right">> :> TriangleList_new(partition.rights))

\* Mesh { triangles: BVH }.
MeshItem(bvh) == [type |-> "Mesh", triangles |-> bvh]

\* BVH::bounding_box, which Mesh::bounding_box forwards to: the root's box.
Mesh_bounding_box(mesh) == SomeBox(mesh.triangles[<<>>].bounding_box)

\* A HittableList as one Hittable.
HittableListItem(objs) == [type |-> "HittableList", objects |-> objs]

\* Triangle::hit for the ray (ray.origin, scale * ray.direction): the same
\* lines as Triangle_hit, with the direction's length carried as a rational.
Triangle_hit_along(tri, ray, scale, min_distance, max_distance) ==
    LET perpendicular == Cross(ray.direction, edge_two(tri))
        elevation_angle == FTimes(Dot(edge_one(tri), perpendicular), scale)
        minus_eps == [n |-> -EPSILON.n, d |-> EPSILON.d]
    IN  IF FLe(minus_eps, elevation_angle) /\ FLt(elevation_angle, EPSILON)
        THEN None
        ELSE
          LET distance == VSub(ray.origin, tri.vertices[1])
              u == FQuot(FTimes(Dot(distance, perpendicular), scale), elevation_angle)
          IN  IF ~(FLe(FInt(0), u) /\ FLe(u, FInt(1)))
              THEN None
              ELSE
                LET q == Cross(distance, edge_one(tri))
                    v == FQuot(FTimes(Dot(ray.direction, q), scale), elevation_angle)
                    u_plus_v == FQuot(FTimes(Dot(distance, perpendicular)
                                             + Dot(ray.direction, q), scale),
                                      elevation_angle)
                IN  IF FLt(v, FInt(0)) \/ FLt(FInt(1), u_plus_v)
                    THEN None
                    ELSE
                      LET t == FQuot(FInt(Dot(edge_two(tri), q)), elevation_angle)
                      IN  IF FLt(min_distance, t) /\ FLt(t, max_distance)
                          THEN Some(Ray_at(ray, FQuot(t, FQuot(FInt(1), scale))), t,
                                    tri.material)
                          ELSE None

\* <dyn Hittable>::hit: the call lands in the implementation of the object.
dyn_hit(object, ray, min_distance, max_distance) ==
    CASE object.type = "Sphere" -> Sphere_hit(object, ray, min_distance, max_distance)
      [] object.type = "Rectangle" -> Rectangle_hit(object, ray, min_distance, max_distance)
      [] object.type = "Mesh" -> Mesh_hit(object, ray, min_distance, max_distance)
      [] object.type = "HittableList" ->
             HittableList_hit(object.objects, ray, min_distance, max_distance)
      [] OTHER -> Hittable_hit(object, ray, min_distance, max_distance)

\* <dyn Hittable>::bounding_box.
dyn_bounding_box(object) ==
    CASE object.type = "Sphere" -> SomeBox(Sphere_bounding_box(object))
      [] object.type = "Rectangle" -> Rectangle_bounding_box(object)
      [] object.type = "Mesh" -> Mesh_bounding_box(object)
      [] object.type = "HittableList" -> HittableList_bounding_box(object.objects)
      [] OTHER -> Hittable_bounding_box(object)

\* The objects asked: triangles, a triangle list, planes, spheres (one of
\* radius 0), a rectangle, a mesh over a two-leaf BVH and a HittableList.
ShapePool ==
    { TriangleItem(Triangle(<<Vec3(0, 0, 0), Vec3(1, 0, 0), Vec3(0, 1, 0)>>, Lambertian)),
      TriangleItem(Triangle(<<Vec3(0, 0, 2), Vec3(3, 0, 2), Vec3(0, 3, 2)>>, Lambertian)),
      TriangleListItem(<< Triangle(<<Vec3(0, 0, 3), Vec3(3, 0, 3), Vec3(0, 3, 3)>>, Lambertian),
                          Triangle(<<Vec3(3, 3, 1), Vec3(0, 3, 1), Vec3(3, 0, 1)>>, Lambertian) >>),
      Plane(Vec3(0, 0, -1), Vec3(0, 0, 1), Lambertian),
      Plane(Vec3(2, 0, 0), Vec3(1, 0, 0), Lambertian),
      Sphere(Vec3(1, 1, 0), 1, Lambertian),
      Sphere(Vec3(0, 0, 0), 2, Lambertian),
      Sphere(Vec3(1, 1, 1), 0, Lambertian),
      Rectangle_new(<<Vec3(0, 0, 1), Vec3(3, 0, 1), Vec3(3, 3, 1), Vec3(0, 3, 1)>>, Lambertian),
      MeshItem(BVH_build_two_leaves(
          << Triangle(<<Vec3(0, 0, 0), Vec3(2, 0, 0), Vec3(0, 2, 0)>>, Lambertian),
             Triangle(<<Vec3(2, 0, 2), Vec3(4, 0, 2), Vec3(2, 4, 2)>>, Lambertian) >>)),
      HittableListItem(<< Plane(Vec3(0, 0, -1), Vec3(0, 0, 1), Lambertian),
                          TriangleItem(Triangle(<<Vec3(0, 0, 3), Vec3(3, 0, 3), Vec3(0, 3, 3)>>,
                                                Lambertian)),
                          TriangleItem(Triangle(<<Vec3(0, 0, 2), Vec3(3, 0, 2), Vec3(0, 3, 2)>>,
                                                Lambertian)) >>) }

ShapeRays ==
    { Ray(Vec3(1, 1, 4), Vec3(0, 0, -1)), Ray(Vec3(0, 0, -1), Vec3(0, 0, 1)),
      Ray(Vec3(1, 1, 0), Vec3(0, 0, 1)), Ray(Vec3(-3, 1, 0), Vec3(1, 0, 0)),
      Ray(Vec3(1, 1, 4), Vec3(1, 0, -1)), Ray(Vec3(0, 0, 4), Vec3(1, 1, -2)),
      Ray(Vec3(0, 0, 1), Vec3(0, 0, -1)) }

ShapeIntervals ==
    { <<EPSILON, MAX_HIT_DISTANCE>>, <<FInt(1), FInt(5)>>, <<FInt(2), FInt(3)>> }

\* The lengths of the short directions: EPSILON / 2, EPSILON and 2 EPSILON.
ShortScales == { FDiv(EPSILON.n, 2 * EPSILON.d), EPSILON, FDiv(2 * EPSILON.n, EPSILON.d) }

\* The intervals asked along a short direction, where t is large.
ShortIntervals == { <<FInt(0), MAX_HIT_DISTANCE>>, <<FInt(1), FInt(5)>> }

\* object.hit(ray, min_distance, max_distance), the direction as listed.
ShapeHit ==
    /\ shape.type # "none"
    /\ ~shape_query.asked
    /\ ~shape_box.asked
    /\ \E ray \in ShapeRays, iv \in ShapeIntervals :
          /\ shape_query' = [asked |-> TRUE, ray |-> ray, scale |-> FInt(1),
                             min_distance |-> iv[1], max_distance |-> iv[2]]
          /\ shape_hit' = dyn_hit(shape, ray, iv[1], iv[2])
    /\ UNCHANGED <<shape, shape_box>>
    /\ UNCHANGED <<bvhVars, boxVars, listVars, traceVars, jitterVars, renderVars>>

\* triangle.hit(ray, min_distance, max_distance) for a ray of short direction.
TriangleHitShort ==
    /\ shape.type = "Triangle"
    /\ ~shape_query.asked
    /\ ~shape_box.asked
    /\ \E ray \in ShapeRays, scale \in ShortScales, iv \in ShortIntervals :
          /\ shape_query' = [asked |-> TRUE, ray |-> ray, scale |-> scale,
                             min_distance |-> iv[1], max_distance |-> iv[2]]
          /\ shape_hit' = Triangle_hit_along(shape, ray, scale, iv[1], iv[2])
    /\ UNCHANGED <<shape, shape_box>>
    /\ UNCHANGED <<bvhVars, boxVars, listVars, traceVars, jitterVars, renderVars>>

\* object.bounding_box().
ShapeBoundingBox ==
    /\ shape.type # "none"
    /\ ~shape_query.asked
    /\ ~shape_box.asked
    /\ shape_box' = [asked |-> TRUE, result |-> dyn_bounding_box(shape)]
    /\ UNCHANGED <<shape, shape_query, shape_hit>>
    /\ UNCHANGED <<bvhVars, boxVars, listVars, traceVars, jitterVars, renderVars>>

\* AABB::surrounding_box(object.bounding_box(), other.bounding_box()).
ShapeSurroundingBox ==
    /\ shape.type # "none"
    /\ ~shape_query.asked
    /\ ~shape_box.asked
    /\ \E other \in ShapePool :
          /\ dyn_bounding_box(shape).some
          /\ dyn_bounding_box(other).some
          /\ shape_box' = [asked |-> TRUE,
                           result |-> SomeBox(surrounding_box(dyn_bounding_box(shape).box,
                                                              dyn_bounding_box(other).box))]
    /\ UNCHANGED <<shape, shape_query, shape_hit>>
    /\ UNCHANGED <<bvhVars, boxVars, listVars, traceVars, jitterVars, renderVars>>

InitShape ==
    /\ shape \in ShapePool
    /\ shape_query = NoQuery
    /\ shape_hit = None
    /\ shape_box = [asked |-> FALSE]
    /\ IdleBVH
    /\ IdleBox
    /\ IdleList
    /\ IdleTrace
    /\ IdleJitter
    /\ IdleRender

NextShape == ShapeHit \/ TriangleHitShort \/ ShapeBoundingBox \/ ShapeSurroundingBox

SpecShape == InitShape /\ [][NextShape]_vars

\* The geometry as a whole: a BVH is built over triangles and asked, or one
\* Hittable is asked.
InitGeometry == InitBVH \/ InitShape

NextGeometry == NextBVH \/ NextShape

SpecGeometry == InitGeometry /\ [][NextGeometry]_vars

-----------------------------------------------------------------------------
(* Claims.                                                                 *)

IsPrefix(p, q) == Len(p) <= Len(q) /\ SubSeq(q, 1, Len(p)) = p

BoxContainsBox(outer, inner) ==
    \A k \in Axes : /\ outer.minimum_point[k] <= inner.minimum_point[k]
                    /\ inner.maximum_point[k] <= outer.maximum_point[k]

BoxContainsPoint(box, point) ==
    \A k \in Axes : /\ box.minimum_point[k] <= point[k]
                    /\ point[k] <= box.maximum_point[k]

\* C1: on every tree BVH::build returns, for every ray and interval, BVH.hit
\* returns a hit exactly when the linear scan of the same triangles
\* (TriangleList.hit) returns one, and the two hits have the same distance.
C1_BVHEqualsLinearScan ==
    query.asked =>
        /\ bvh_hit.some = list_hit.some
        /\ bvh_hit.some => bvh_hit.distance = list_hit.distance

\* C4: BVH::build never recurses on a list as large as the one it was given:
\* every activation holds fewer objects than its caller's.
C4_RecursesOnShorterLists ==
    \A k \in 1..(Len(stack) - 1) : Len(stack[k + 1].objs) < Len(stack[k].objs)

\* C5: on a non-empty list, BVH::build never calls TriangleList::new with an
\* empty vector (never panics): both children of every node hold a triangle.
C5_NoEmptyChild ==
    /\ bpc # "panic"
    /\ \A p \in DOMAIN tree :
          tree[p].kind = "HittableList" => tree[p].triangles # <<>>

\* C6: the box of every node of a tree returned by BVH::build is the
\* surrounding_box of its two children's boxes; it contains both and every
\* vertex of every triangle below the node.
C6_NodeBoxIsUnion ==
    \A p \in DOMAIN tree :
        tree[p].kind = "BVH" =>
            /\ Append(p, "left") \in DOMAIN tree
            /\ Append(p, "right") \in DOMAIN tree
            /\ tree[p].bounding_box =
                   surrounding_box(tree[Append(p, "left")].bounding_box,
                                   tree[Append(p, "right")].bounding_box)
            /\ BoxContainsBox(tree[p].bounding_box, tree[Append(p, "left")].bounding_box)
            /\ BoxContainsBox(tree[p].bounding_box, tree[Append(p, "right")].bounding_box)
            /\ \A q \in DOMAIN tree :
                  (IsPrefix(p, q) /\ tree[q].kind = "HittableList") =>
                      \A i \in 1..Len(tree[q].triangles), j \in 1..3 :
                          BoxContainsPoint(tree[p].bounding_box,
                                           tree[q].triangles[i].vertices[j])

\* C6's case: a returned tree whose root has a sub-tree as a child.
C6_Witness ==
    /\ bpc = "built"
    /\ \E p \in DOMAIN tree : Len(p) = 1 /\ tree[p].kind = "BVH"

\* C7: surrounding_box(a, b) contains a and b and is minimal: on each axis
\* its minimum is the smaller of the two minima and its maximum the larger
\* of the two maxima, so every box that contains a and b contains it.
C7_SurroundingBoxMinimal ==
    box_surrounding.some =>
        LET a == box_first.box
            b == box_second.box
            u == box_surrounding.box
        IN  /\ BoxContainsBox(u, a)
            /\ BoxContainsBox(u, b)
            /\ \A k \in Axes :
                  /\ u.minimum_point[k] \in {a.minimum_point[k], b.minimum_point[k]}
                  /\ u.maximum_point[k] \in {a.maximum_point[k], b.maximum_point[k]}
            /\ \A c \in Boxes :
                  (BoxContainsBox(c, a) /\ BoxContainsBox(c, b)) => BoxContainsBox(c, u)

\* C7's case: the union of two boxes neither of which contains the other.
C7_Witness ==
    /\ box_surrounding.some
    /\ ~BoxContainsBox(box_first.box, box_second.box)
    /\ ~BoxContainsBox(box_second.box, box_first.box)
    /\ box_surrounding.box \notin {box_first.box, box_second.box}

Orders(n) == { f \in [1..n -> 1..n] : \A i, j \in 1..n : f[i] = f[j] => i = j }

Permuted(seq, f) == [i \in 1..Len(seq) |-> seq[f[i]]]

\* hit is the closest of the hits `hits` (a sequence of Option<HitRecord>):
\* None exactly when none of them is a hit, else at the least distance.
ClosestOf(hit, hits) ==
    /\ hit.some <=> \E i \in 1..Len(hits) : hits[i].some
    /\ hit.some =>
          /\ \E i \in 1..Len(hits) : hits[i].some /\ hits[i].distance = hit.distance
          /\ \A i \in 1..Len(hits) : hits[i].some => FLe(hit.distance, hits[i].distance)

SameDistance(h1, h2) == h1.some = h2.some /\ (h1.some => h1.distance = h2.distance)

C9_ListBoxIsUnion ==
    hl_box.asked =>
        LET n == Len(hl_objects)
            boxes == [i \in 1..n |-> Hittable_bounding_box(hl_objects[i])]
        IN  IF n = 0 \/ \E i \in 1..n : ~boxes[i].some
            THEN hl_box.result = NoBox
            ELSE /\ hl_box.result.some
                 /\ \A k \in Axes :
                       /\ \A i \in 1..n : hl_box.result.box.minimum_point[k]
                                              <= boxes[i].box.minimum_point[k]
                       /\ \E i \in 1..n : hl_box.result.box.minimum_point[k]
                                              = boxes[i].box.minimum_point[k]
                       /\ \A i \in 1..n : hl_box.result.box.maximum_point[k]
                                              >= boxes[i].box.maximum_point[k]
                       /\ \E i \in 1..n : hl_box.result.box.maximum_point[k]
                                              = boxes[i].box.maximum_point[k]

\* C9's case: the box of a list of bounded members that is none of theirs.
C9_Witness ==
    /\ hl_box.asked
    /\ hl_box.result.some
    /\ Len(hl_objects) >= 2
    /\ \A i \in 1..Len(hl_objects) :
          Hittable_bounding_box(hl_objects[i]).box # hl_box.result.box

\* The trace_ray calls in progress.
TraceRayCalls == { k \in 1..Len(calls) : calls[k].fn = "trace_ray" }

\* C2: the integrator terminates; at most depth_limit trace_ray calls are
\* nested inside the outermost one, and every trace_ray call made by a
\* material's shade has depth one less than the depth the shade received.
C2_TerminatesWithinDepth ==
    /\ [](/\ Cardinality(TraceRayCalls) <= depth_limit + 1
          /\ tpc \notin {"panic", "wrapped"}
          /\ \A k \in 1..(Len(calls) - 1) :
                calls[k].fn = "shade" => /\ calls[k + 1].fn = "trace_ray"
                                         /\ calls[k + 1].depth = calls[k].depth - 1)
    /\ (tpc = "running" ~> tpc = "done")

\* C2's case: calls nested to the depth limit under two mirrors and a
\* transparent object in its refracted branch.
C2_Witness ==
    /\ depth_limit = MaxDepth
    /\ Cardinality(TraceRayCalls) = depth_limit + 1
    /\ \E k \in 1..Len(calls) : calls[k].material.type = "Transparent"
                                 /\ calls[k].pc = "transmitted"
    /\ \E k \in 1..(Len(calls) - 2) : /\ calls[k].material.type = "Metal"
                                       /\ calls[k + 2].material.type = "Metal"

\* C3: trace_ray with depth limit 0 returns black, whatever the scene and
\* the sky.
C3_DepthZeroIsBlack ==
    (tpc = "done" /\ depth_limit = 0) => ret = Black

\* C3's case: a call with depth limit 0 on a scene with objects has returned.
C3_Witness ==
    /\ tpc = "done"
    /\ depth_limit = 0
    /\ scene # {}

\* The coordinate t lies in the fine cell c of the N^2 that divide [0, 1).
InFineCell(t, c) ==
    /\ FLe(FDiv(c, SAMPLES_LEVEL * SAMPLES_LEVEL), t)
    /\ FLt(t, FDiv(c + 1, SAMPLES_LEVEL * SAMPLES_LEVEL))

\* C10: after the initialisation, every fine column holds the x of exactly
\* one sample and every fine row the y of exactly one sample.
C10_NRooks ==
    jpc = "initialised" =>
        \A c \in 0..(SAMPLES_LEVEL * SAMPLES_LEVEL - 1) :
            /\ Cardinality({ s \in Cells : InFineCell(jitter_boxes[s][1], c) }) = 1
            /\ Cardinality({ s \in Cells : InFineCell(jitter_boxes[s][2], c) }) = 1

\* How many samples of the array have the value v as coordinate k.
CountOf(array, k, v) == Cardinality({ c \in Cells : array[c][k] = v })

SameCoordinates(before, after, k) ==
    \A c \in Cells : /\ CountOf(after, k, before[c][k]) = CountOf(before, k, before[c][k])
                     /\ CountOf(before, k, after[c][k]) = CountOf(after, k, after[c][k])

\* C11: shuffle_jittered_sampling only permutes coordinates: the x of the
\* samples, and the y of the samples, are the same multiset after as before.
C11_ShufflePermutes ==
    jpc = "shuffled" =>
        /\ SameCoordinates(jitter_canonical, jitter_boxes, 1)
        /\ SameCoordinates(jitter_canonical, jitter_boxes, 2)

\* The refraction test as the claim states it: sin^2 theta_i > eta^2, with
\* eta = 1 / refractive_index when the ray leaves the medium (cos theta_i < 0).
BeyondCriticalAngle(cos_theta_i, refractive_index) ==
    LET leaving == cos_theta_i.n < 0
        eta_n == IF leaving THEN refractive_index.d ELSE refractive_index.n
        eta_d == IF leaving THEN refractive_index.n ELSE refractive_index.d
    IN  (cos_theta_i.d * cos_theta_i.d - cos_theta_i.n * cos_theta_i.n) * eta_d * eta_d
            > eta_n * eta_n * cos_theta_i.d * cos_theta_i.d

\* A Transparent::shade beyond the critical angle is the call on top.
ReflectingTotally ==
    /\ tpc = "running"
    /\ calls # <<>>
    /\ Current.fn = "shade"
    /\ Current.material.type = "Transparent"
    /\ BeyondCriticalAngle(Current.cos_theta_i, Current.material.refractive_index)

\* C12: beyond the critical angle Transparent.shade traces the reflected ray,
\* then returns its radiance as it is; it never traces a transmitted ray.
C12_TotalReflectionOnly ==
    [][ReflectingTotally =>
          /\ Current.pc \in {"start", "reflected"}
          /\ Current.pc = "start" =>
                /\ Len(calls') = Len(calls) + 1
                /\ calls'[Len(calls)].pc = "reflected"
                /\ calls'[Len(calls')].fn = "trace_ray"
          /\ Current.pc = "reflected" =>
                /\ calls' = SubSeq(calls, 1, Len(calls) - 1)
                /\ ret' = ret]_vars

\* C12's case: beyond the critical angle the reflected ray has brought back
\* light.
C12_Witness ==
    /\ ReflectingTotally
    /\ Current.pc = "reflected"
    /\ ret # Black

\* A Lambertian::shade that received depth >= 1 is the call on top.
LambertianShading ==
    /\ tpc = "running"
    /\ calls # <<>>
    /\ Current.fn = "shade"
    /\ Current.material.type = "Lambertian"
    /\ Current.depth >= 1

\* C13: Lambertian.shade with depth d >= 1 makes one trace_ray call, at depth
\* d - 1, and returns albedo times the radiance the call returned, which for
\* an albedo in [0, 1] is no more than that radiance.
C13_LambertianAttenuates ==
    [][LambertianShading =>
          /\ Current.pc \in {"start", "scattered"}
          /\ Current.pc = "start" =>
                /\ Len(calls') = Len(calls) + 1
                /\ SubSeq(calls', 1, Len(calls) - 1) = SubSeq(calls, 1, Len(calls) - 1)
                /\ calls'[Len(calls)].pc = "scattered"
                /\ calls'[Len(calls')].fn = "trace_ray"
                /\ calls'[Len(calls')].depth = Current.depth - 1
          /\ Current.pc = "scattered" =>
                /\ calls' = SubSeq(calls, 1, Len(calls) - 1)
                /\ ret' * Current.material.albedo.d = Current.material.albedo.n * ret
                /\ (FLe(FInt(0), Current.material.albedo)
                      /\ FLe(Current.material.albedo, FInt(1))) => ret' <= ret]_vars

\* C13's case: the scattered ray of a Lambertian::shade has brought back
\* light.
C13_Witness ==
    /\ LambertianShading
    /\ Current.pc = "scattered"
    /\ ret > Black

\* The closure of pixel k run from its first line to its last with no other
\* task beside it: the sum of ray_color over the samples of its jitter_boxes.
RECURSIVE AloneLoop(_, _, _)
AloneLoop(k, n, pixel_color) ==
    IF n = SAMPLES_LEVEL * SAMPLES_LEVEL
    THEN pixel_color
    ELSE LET jitter == JitterBoxes(draws_of(rng_outcome, k))
                           [<<n \div SAMPLES_LEVEL, n % SAMPLES_LEVEL>>]
             u == pixel_u(pixel_coordinates[k][1], jitter)
             v == pixel_v(pixel_coordinates[k][2], jitter)
         IN  AloneLoop(k, n + 1,
                       pixel_color + ray_color(get_ray(world.camera, u, v), world.mesh, 1))

PixelAlone(k) == AloneLoop(k, 0, Black)

\* A task that finishes leaves the colour its pixel has alone, a finished
\* task's result stays as it is, and collect() takes the results as they are.
ResultsAsAlone ==
    /\ \A k \in DOMAIN tasks :
          /\ (tasks[k].pc = "sampling" /\ tasks'[k].pc = "finished") =>
                tasks'[k] = Finished(pixel_coordinates[k], PixelAlone(k))
          /\ tasks[k].pc = "finished" => tasks'[k] = tasks[k]
          /\ tasks'[k].pc = "finished" => tasks[k].pc \in {"sampling", "finished"}
    /\ pixels' # pixels =>
          /\ \A k \in DOMAIN tasks : tasks[k].pc = "finished"
          /\ pixels' = [k \in DOMAIN tasks |-> <<tasks[k].pixel, tasks[k].pixel_color>>]

\* A step of the parallel phase changes the record of one task and nothing
\* else.
OneTaskSteps ==
    (rpc = "tracing" /\ rpc' = "tracing") =>
       /\ \E k \in DOMAIN tasks :
             \A other \in DOMAIN tasks \ {k} : tasks'[other] = tasks[other]
       /\ pixels' = pixels

\* C14: under every interleaving of the pixel tasks, their draws fixed, each
\* pixel gets the colour it gets when computed alone; a task's step touches
\* no other task's state, and only collect() brings the results together.
C14_PixelsIndependent == [][OneTaskSteps /\ ResultsAsAlone]_vars

\* C14's case: two tasks are both part-way through their samples, with
\* different sums so far.
C14_Witness ==
    \E a \in DOMAIN tasks, b \in DOMAIN tasks :
       /\ a # b
       /\ tasks[a].pc = "sampling" /\ tasks[a].j >= 1
       /\ tasks[b].pc = "sampling" /\ tasks[b].j >= 1
       /\ tasks[a].pixel_color # tasks[b].pixel_color

AnyTaskStarted == \E k \in DOMAIN tasks : tasks[k].pc # "queued"

\* C15: the scene is built once, before any pixel task starts, and no step
\* after that changes it, up to the end of the render.
C15_SceneBuiltOnceThenFixed ==
    /\ [](AnyTaskStarted => world.built)
    /\ [][world.built => world' = world]_vars
    /\ [][world' # world => (rpc = "start" /\ ~AnyTaskStarted)]_vars

\* C15's case: the render is over, the tasks have read the scene.
C15_Witness ==
    /\ rpc = "collected"
    /\ world.built
    /\ \E k \in DOMAIN pixels : pixels[k][2] # Black

\* C16: every get_ray call of the driver has 0 <= u <= 1 and 0 <= v <= 1
\* (u and v of a task are those of its last call, once it has made one).
C16_NormalizedCoordinates ==
    \A k \in DOMAIN tasks :
       (tasks[k].pc = "sampling" /\ (tasks[k].j > 0 \/ tasks[k].i > 0)) =>
          /\ FLe(FInt(0), tasks[k].u) /\ FLe(tasks[k].u, FInt(1))
          /\ FLe(FInt(0), tasks[k].v) /\ FLe(tasks[k].v, FInt(1))

\* The ray is inside the box at the finite distance t.
InsideAt(box, ray, t) ==
    \A k \in Axes :
       /\ box.minimum_point[k] * t.d <= ray.origin[k] * t.d + t.n * ray.direction[k]
       /\ ray.origin[k] * t.d + t.n * ray.direction[k] <= box.maximum_point[k] * t.d

\* The distances at which the ray crosses a face plane of the box, and the
\* ends of the interval.  If the ray is inside the box anywhere in the
\* interval, it is at one of them.
Crossings(box, ray, min_distance, max_distance) ==
    { t \in {min_distance, max_distance}
            \cup { FDiv(box.minimum_point[k] - ray.origin[k], ray.direction[k]) : k \in Axes }
            \cup { FDiv(box.maximum_point[k] - ray.origin[k], ray.direction[k]) : k \in Axes } :
        t.d # 0 }

PassesThrough(box, ray, min_distance, max_distance) ==
    \E t \in Crossings(box, ray, min_distance, max_distance) :
       /\ FLe(min_distance, t)
       /\ FLe(t, max_distance)
       /\ InsideAt(box, ray, t)

\* C17: AABB.hit reports a hit only for a ray that is inside the box at some
\* t of [tmin, tmax]; a ray whose slab intervals on two axes do not overlap
\* is a miss.
C17_BoxHitMeansInside ==
    (box_query.asked /\ box_hit.some) =>
       PassesThrough(box_first.box, box_query.ray,
                     box_query.min_distance, box_query.max_distance)

\* The hit is the record that Triangle::hit of one of the triangles returns
\* for the query.
FromLeafPrimitive(hit) ==
    \E i \in DOMAIN objects :
       hit = Triangle_hit(objects[i], query.ray, query.min_distance, query.max_distance)

\* C18: a HitRecord that BVH.hit (and Mesh.hit, which forwards to it)
\* returns is that of a triangle of a leaf and has a material; the record of
\* the box test (material None) is never returned.
C18_HitsHaveMaterial ==
    (query.asked /\ bvh_hit.some) =>
       /\ bvh_hit.material # "None"
       /\ bvh_hit.material \in { objects[i].material : i \in DOMAIN objects }
       /\ FromLeafPrimitive(bvh_hit)

\* C18's case: a ray sent into a tree whose root is an inner node passed the
\* box test and came back with a hit.
C18_Witness ==
    /\ query.asked
    /\ tree[<<>>].kind = "BVH"
    /\ AABB_hit(tree[<<>>].bounding_box, query.ray,
                query.min_distance, query.max_distance).some
    /\ bvh_hit.some

\* What BVH.hit returns at the inner node p for the query, from what its box
\* and its children return.
NodeReturnsAsStated(p) ==
    LET ray == query.ray
        tmin == query.min_distance
        tmax == query.max_distance
        node == BVHNode_hit(tree, p, ray, tmin, tmax)
        hit_left == BVHNode_hit(tree, Append(p, "left"), ray, tmin, tmax)
        right_below == BVHNode_hit(tree, Append(p, "right"), ray, tmin, hit_left.distance)
        right_full == BVHNode_hit(tree, Append(p, "right"), ray, tmin, tmax)
    IN  IF ~AABB_hit(tree[p].bounding_box, ray, tmin, tmax).some
        THEN node = None
        ELSE IF hit_left.some
        THEN /\ right_below.some => FLt(right_below.distance, hit_left.distance)
             /\ node = IF right_below.some THEN right_below ELSE hit_left
        ELSE node = right_full

\* C19: at a node whose box is hit, the right child is searched below the
\* left child's distance dl and what it returns is strictly nearer than dl;
\* if the left child misses the right is searched over [tmin, tmax]; the node
\* returns the right hit if any, else the left hit, else None.
C19_RightSearchedBelowLeft ==
    (bpc = "built" /\ query.asked) =>
       /\ bvh_hit = BVHNode_hit(tree, <<>>, query.ray, query.min_distance, query.max_distance)
       /\ \A p \in DOMAIN tree : tree[p].kind = "BVH" => NodeReturnsAsStated(p)

\* C19's case: at the root both children were hit, the right one nearer.
C19_Witness ==
    /\ bpc = "built"
    /\ query.asked
    /\ tree[<<>>].kind = "BVH"
    /\ AABB_hit(tree[<<>>].bounding_box, query.ray,
                query.min_distance, query.max_distance).some
    /\ BVHNode_hit(tree, <<"left">>, query.ray, query.min_distance, query.max_distance).some
    /\ BVHNode_hit(tree, <<"right">>, query.ray, query.min_distance, query.max_distance).some
    /\ bvh_hit = BVHNode_hit(tree, <<"right">>, query.ray, query.min_distance,
                             BVHNode_hit(tree, <<"left">>, query.ray, query.min_distance,
                                         query.max_distance).distance)

CentroidsOf(objs) == [i \in 1..Len(objs) |-> centroid(Triangle_bounding_box(objs[i]))]

\* max - min of the centroids on an axis.
SpreadOn(centroids, axis) ==
    LET values == { centroids[i][axis] : i \in DOMAIN centroids }
    IN  (CHOOSE hi \in values : \A w \in values : w <= hi)
        - (CHOOSE lo \in values : \A w \in values : lo <= w)

\* The lowest-index axis of greatest spread (axis 0 of the code is 1 here).
GreatestSpreadAxis(centroids) ==
    CHOOSE a \in Axes :
       /\ \A b \in Axes : SpreadOn(centroids, b) <= SpreadOn(centroids, a)
       /\ \A b \in Axes : b < a => SpreadOn(centroids, b) < SpreadOn(centroids, a)

RECURSIVE SumOn(_, _, _)
SumOn(centroids, axis, i) ==
    IF i > Len(centroids) THEN 0 ELSE centroids[i][axis] + SumOn(centroids, axis, i + 1)

\* The centroid of obj is strictly below the arithmetic mean of the centroids.
BelowMean(obj, centroids, axis) ==
    centroid(Triangle_bounding_box(obj))[axis] * Len(centroids) < SumOn(centroids, axis, 1)

\* The centroid of obj is strictly below the mean as f32 arithmetic gives it:
\* the f32 sum in list order, divided in f32 by the number of centroids.
BelowF32Mean(obj, centroids, axis) ==
    FLt(FInt(centroid(Triangle_bounding_box(obj))[axis]),
        F32Quot(F32Sum([i \in DOMAIN centroids |-> centroids[i][axis]], 1, 0),
                Len(centroids)))

\* The triangles that BVH::build, at work on the list of frame f, has handed
\* to the child `name`: to a recursive call or to TriangleList::new.
HandedTo(f, name, side) ==
    /\ \A k \in DOMAIN stack :
          stack[k].path = Append(f.path, name) => stack[k].objs = side
    /\ (Append(f.path, name) \in DOMAIN tree
          /\ tree[Append(f.path, name)].kind = "HittableList") =>
             tree[Append(f.path, name)].triangles = side

\* Every call in progress has split its list as stated, the mean being the
\* arithmetic one or the f32 one.
SplitAsStated(mean) ==
    \A k \in DOMAIN stack :
       stack[k].objs # <<>> =>
          LET f == stack[k]
              centroids == CentroidsOf(f.objs)
              axis == GreatestSpreadAxis(centroids)
              left(obj) == IF mean = "f32" THEN BelowF32Mean(obj, centroids, axis)
                                           ELSE BelowMean(obj, centroids, axis)
              right(obj) == ~left(obj)
          IN  /\ HandedTo(f, "left", SelectSeq(f.objs, left))
              /\ HandedTo(f, "right", SelectSeq(f.objs, right))

RECURSIVE LeafTriangles(_)
LeafTriangles(paths) ==
    IF paths = {} THEN 0
    ELSE LET q == CHOOSE q \in paths : TRUE
         IN  Len(tree[q].triangles) + LeafTriangles(paths \ {q})

\* The leaves at or below the path p.
LeavesBelow(p) ==
    { q \in DOMAIN tree : tree[q].kind = "HittableList" /\ IsPrefix(p, q) }

\* C21: no leaf list is longer than max_at_leaf, and a side of a partition is
\* built as a sub-tree exactly when it holds more than max_at_leaf triangles:
\* a recursive call is on a longer list, a finished sub-tree holds more, a
\* leaf holds no more.
C21_LeavesWithinMaxAtLeaf ==
    /\ \A p \in DOMAIN tree :
          tree[p].kind = "HittableList" => Len(tree[p].triangles) <= max_at_leaf
    /\ \A k \in DOMAIN stack :
          stack[k].path # <<>> => Len(stack[k].objs) > max_at_leaf
    /\ \A p \in DOMAIN tree :
          (tree[p].kind = "BVH" /\ p # <<>>) =>
             LeafTriangles(LeavesBelow(p)) > max_at_leaf

\* C21's case: a returned tree with a sub-tree beside a leaf that is full.
C21_Witness ==
    /\ bpc = "built"
    /\ \E p \in DOMAIN tree : p # <<>> /\ tree[p].kind = "BVH"
    /\ \E p \in DOMAIN tree :
          /\ Len(p) = 1
          /\ tree[p].kind = "HittableList"
          /\ Len(tree[p].triangles) = max_at_leaf


\* The answer the plane test is said to give: a miss for a ray within EPSILON
\* of parallel, and otherwise a hit exactly when t lies inside the interval.
PlaneHitAsStated(plane, ray, min_distance, max_distance) ==
    LET angle == Dot(plane.normal, ray.direction)
        t == FDiv(Dot(VSub(plane.center, ray.origin), plane.normal), angle)
    IN  /\ FLt(EPSILON, FInt(Abs(angle)))
        /\ FLt(min_distance, t)
        /\ FLt(t, max_distance)

\* C22: Plane.hit returns None when |dot(normal, direction)| <= EPSILON, for
\* every tmin, and otherwise returns a hit exactly when tmin < t < tmax.
C22_PlaneTestsAgainstEpsilon ==
    (hl_query.asked /\ Len(hl_objects) = 1 /\ hl_objects[1].type = "Plane") =>
        (hl_hit.some <=> PlaneHitAsStated(hl_objects[1], hl_query.ray,
                                          hl_query.min_distance, hl_query.max_distance))


\* The answer the triangle test is said to give for the ray
\* (ray.origin, scale * ray.direction).
TriangleHitAsStated(tri, ray, scale, min_distance, max_distance) ==
    LET perpendicular == Cross(ray.direction, edge_two(tri))
        distance == VSub(ray.origin, tri.vertices[1])
        q == Cross(distance, edge_one(tri))
        det == FTimes(Dot(edge_one(tri), perpendicular), scale)
        abs_det == FTimes(Abs(Dot(edge_one(tri), perpendicular)), scale)
        u == FDiv(Dot(distance, perpendicular), Dot(edge_one(tri), perpendicular))
        v == FDiv(Dot(ray.direction, q), Dot(edge_one(tri), perpendicular))
        u_plus_v == FDiv(Dot(distance, perpendicular) + Dot(ray.direction, q),
                         Dot(edge_one(tri), perpendicular))
        t == FQuot(FInt(Dot(edge_two(tri), q)), det)
    IN  /\ FLe(EPSILON, abs_det)
        /\ FLe(FInt(0), u) /\ FLe(u, FInt(1))
        /\ FLe(FInt(0), v)
        /\ FLe(u_plus_v, FInt(1))
        /\ FLt(min_distance, t) /\ FLt(t, max_distance)

\* C23: Triangle.hit returns a hit exactly when |det| >= EPSILON, 0 <= u <= 1,
\* v >= 0, u + v <= 1 and tmin < t < tmax, and None in every other case.
C23_TriangleHitsFromEpsilon ==
    (shape.type = "Triangle" /\ shape_query.asked) =>
        (shape_hit.some <=> TriangleHitAsStated(shape, shape_query.ray, shape_query.scale,
                                                shape_query.min_distance,
                                                shape_query.max_distance))


\* C24: DiffuseLight.shade returns the material's emission colour whatever the
\* ray, hit record and depth, and calls neither trace_ray nor world.hit: its
\* step ends the call and pushes no activation record.
C24_LightEndsPath ==
    [][At("shade", "DiffuseLight", "start") =>
           /\ calls' = SubSeq(calls, 1, Len(calls) - 1)
           /\ ret' = Current.material.color
           /\ tpc' = "running"]_vars

C24_Witness ==
    /\ scene = { m \in MaterialTypes : m.type = "DiffuseLight" }
    /\ depth_limit = MaxDepth
    /\ tpc = "done"
    /\ ret = 2 * RadianceUnit


\* Task k goes once through the body of its sampling loop.
SampleStep(k) ==
    /\ tasks[k].pc = "sampling"
    /\ tasks'[k].pc = "sampling"
    /\ tasks'[k] # tasks[k]

BoxOrdered(box) == \A k \in Axes : box.minimum_point[k] <= box.maximum_point[k]

\* C26: the boxes of Triangle.bounding_box, Sphere.bounding_box (radius >= 0),
\* TriangleList::new and BVH::build, and of AABB::surrounding_box on such
\* boxes, have minimum_point <= maximum_point on each of the three axes.
C26_BoxesOrdered ==
    /\ (shape_box.asked /\ shape_box.result.some) => BoxOrdered(shape_box.result.box)
    /\ shape.type = "Mesh" =>
           \A p \in DOMAIN shape.triangles : BoxOrdered(shape.triangles[p].bounding_box)
    /\ \A p \in DOMAIN tree : BoxOrdered(tree[p].bounding_box)

C26_Witness ==
    /\ shape.type = "Sphere"
    /\ shape.radius > 0
    /\ shape_box.asked
    /\ shape_box.result = SomeBox(Sphere_bounding_box(shape))
    /\ shape_box.result.box.minimum_point[1] < shape_box.result.box.maximum_point[1]


InsideInterval(hit, asked) ==
    /\ FLt(asked.min_distance, hit.distance)
    /\ FLt(hit.distance, asked.max_distance)

\* C27: every HitRecord returned by hit(ray, tmin, tmax) of Sphere, Plane,
\* Triangle, TriangleList, Rectangle, HittableList, Mesh and BVH has
\* tmin < distance < tmax.
C27_HitsInsideInterval ==
    /\ (shape_query.asked /\ shape_hit.some) => InsideInterval(shape_hit, shape_query)
    /\ (query.asked /\ bvh_hit.some) => InsideInterval(bvh_hit, query)
    /\ (query.asked /\ list_hit.some) => InsideInterval(list_hit, query)

C27_Witness ==
    /\ shape.type = "Sphere"
    /\ shape_query.asked
    /\ shape_query.ray.origin = shape.center
    /\ shape_hit.some
    /\ shape_hit.distance = FInt(shape.radius)


\* How often a triangle stands in a list, and in the leaf lists at `paths`.
Occurrences(triangles, tri) == Cardinality({ i \in DOMAIN triangles : triangles[i] = tri })

RECURSIVE LeafOccurrences(_, _)
LeafOccurrences(paths, tri) ==
    IF paths = {} THEN 0
    ELSE LET q == CHOOSE q \in paths : TRUE
         IN  Occurrences(tree[q].triangles, tri) + LeafOccurrences(paths \ {q}, tri)

\* C28: in the tree BVH::build returns, every triangle of the input stands in
\* the leaf lists as often as in the input (once, for distinct triangles), and
\* the leaves together hold as many triangles as the input.
C28_BuildKeepsGeometry ==
    bpc = "built" =>
        /\ \A i \in DOMAIN objects :
              LeafOccurrences(LeavesBelow(<<>>), objects[i]) = Occurrences(objects, objects[i])
        /\ LeafTriangles(LeavesBelow(<<>>)) = Len(objects)

C28_Witness ==
    /\ bpc = "built"
    /\ Len(objects) = MaxTris
    /\ Cardinality(LeavesBelow(<<>>)) > 2
    /\ \A i, j \in DOMAIN objects : i # j => objects[i] # objects[j]


\* C29: no material's shade is invoked with depth 0, whatever the depth limit
\* and the scene, so the subtraction depth - 1 of Lambertian, Metal and
\* Transparent never underflows.
C29_ShadeDepthPositive ==
    /\ \A i \in DOMAIN calls : calls[i].fn = "shade" => calls[i].depth > 0
    /\ tpc \notin {"panic", "wrapped"}

C29_Witness ==
    \E i \in DOMAIN calls :
       /\ i < Len(calls)
       /\ calls[i].fn = "shade"
       /\ calls[i].material.type = "Transparent"
       /\ calls[i].pc = "transmitted"
       /\ calls[i].depth = 1
       /\ calls[i + 1].fn = "trace_ray"
       /\ calls[i + 1].depth = 0


\* The tasks that compute the pixel at a coordinate.
TasksOf(c) == { k \in DOMAIN pixel_coordinates : pixel_coordinates[k] = c }

\* Each coordinate of the image has one task; the image exists only once the
\* results are collected; no coordinate is put twice, a coordinate that was
\* put holds the converted colour of its own task, and a saved image has
\* every coordinate put.
RenderedOnce ==
    /\ \A c \in Coordinates : Cardinality(TasksOf(c)) = 1
    /\ \A k \in DOMAIN pixel_coordinates : pixel_coordinates[k] \in Coordinates
    /\ img.made <=> rpc \in {"writing", "saved"}
    /\ img.made =>
          /\ \A k \in DOMAIN tasks : tasks[k].pc = "finished"
          /\ Len(pixels) = IMAGE_WIDTH * IMAGE_HEIGHT
          /\ \A c \in Coordinates :
                /\ img.put[c] <= 1
                /\ img.put[c] = 1 =>
                      \E k \in TasksOf(c) :
                         /\ tasks[k].pixel_color = PixelAlone(k)
                         /\ img.buffer[c] = vec3_to_rgb(PixelAlone(k), SAMPLES_LEVEL)
                /\ rpc = "saved" => img.put[c] = 1

\* A task that has returned does not run again.
ComputedOnce ==
    \A k \in (DOMAIN tasks) \cap (DOMAIN tasks') :
       tasks[k].pc = "finished" => tasks'[k] = tasks[k]

\* C30: under every scheduling of the pixel tasks the render runs to its end;
\* each pixel (x, y) of the image is computed by exactly one task and put into
\* the image exactly once, with the colour computed for (x, y); the image is
\* saved only after all the pixels have been collected.
C30_RenderCompletes ==
    /\ <>(rpc = "saved")
    /\ []RenderedOnce
    /\ [][ComputedOnce]_vars

C30_Witness ==
    /\ rpc = "saved"
    /\ \E c, d \in Coordinates :
          /\ img.buffer[c] = 0
          /\ img.buffer[d] > 0
          /\ img.buffer[<<c[2], c[1]>>] # img.buffer[c]

====
